---- MODULE Spec2Model ----
(***************************************************************************)
(* Model of scanner.container.manager.ContainerManager: the content-       *)
(* addressed image cache, the execution dispatcher (run_scanner,           *)
(* run_api_server), log streaming and container reaping, against a local   *)
(* container engine whose calls may fail.                                  *)
(***************************************************************************)
EXTENDS Integers, Sequences, FiniteSets, TLC

\* ------------------------------------------------------------------ bounds
MaxLen == 1        \* longest file content, in bytes
MaxCalls == 1      \* manager calls in one behaviour of Spec
MaxFaults == 1     \* engine calls that fail in one behaviour
MaxInterrupts == 1 \* KeyboardInterrupts in one behaviour of Spec
MaxCacheCalls == 3 \* manager calls in one behaviour of SpecCache
MaxEdits == 2      \* source edits in one behaviour of SpecCache
MaxRequests == 2   \* scan requests an API server process receives in SpecTask
MaxKeyCalls == 2   \* _compute_cache_key calls in one behaviour of SpecKey
MaxKeyEdits == 2   \* source edits in one behaviour of SpecKey
MaxPairFaults == 2 \* engine calls that fail in one behaviour of SpecPair
MaxHtml == 4       \* HTML files discover_html_files() returns in SpecPipeline
MaxRaceEdits == 1  \* source edits during the call in one behaviour of SpecRace
MaxMembers == 2    \* members of an archive in SpecUnzip
MaxHttpCalls == 4  \* start and stop calls on one HttpService in SpecHttp
MaxPorts == 3      \* ports the system hands out in SpecHttp

\* ------------------------------------------------------- program constants
DEFAULT_BASE_IMAGE == [repo |-> "mcr.microsoft.com/playwright/python", tag |-> <<1, 54, 0>>]
CACHED_REPO_NAME == "a11y-scanner-cache"
CACHED_VENV_PATH == "/opt/a11y/venv"
IN_CONTAINER_ENV == "A11Y_SCANNER_IN_CONTAINER"
IN_CONTAINER_VALUE == "1"
DigestHexLen == 64     \* hexdigest of sha256
TagLen == 12           \* key[:12]
StopTimeout == 5       \* container.stop(timeout=5)
ApiPort == 8008        \* ports={"8008/tcp": host_port}
HostUid == 1000
HostGid == 1000
HostPorts == {9000}    \* host_port values a caller passes to run_api_server

\* ContainerConfig.__post_init__: the default environment mapping
ConfigEnv == [k \in {"PYTHONUNBUFFERED", "DEBIAN_FRONTEND"} |->
                IF k = "PYTHONUNBUFFERED" THEN "1" ELSE "noninteractive"]
\* an environment mapping without entries
NoEnv == [k \in {} |-> ""]
\* values of config.env: a mapping, or None (env is an attribute a caller can
\* assign after __post_init__ has replaced a None given at construction)
EnvNone == [none |-> TRUE, map |-> NoEnv]
EnvOf(m) == [none |-> FALSE, map |-> m]
\* the environments a manager is configured with: the default, an empty
\* mapping, None, and a mapping that sets the sentinel's name to another value
ConfigEnvs ==
    {EnvOf(ConfigEnv), EnvOf(NoEnv), EnvNone,
     EnvOf([k \in {"PYTHONUNBUFFERED", IN_CONTAINER_ENV} |->
              IF k = IN_CONTAINER_ENV THEN "0" ELSE "1"])}
\* ContainerConfig(): every field at its default
DefaultConfig == [env |-> EnvOf(ConfigEnv), shm_size |-> "2g", workdir |-> "/worksrc",
                  data_subdir |-> "data"]

\* client.version(): the call fails, or gives metadata with its "Components",
\* each a mapping with or without a "Name"; names are sequences of characters
VersionError == [error |-> TRUE, components |-> <<>>]
VersionOf(comps) == [error |-> FALSE, components |-> comps]
Component(name) == [Name |-> name]
DockerVersion == VersionOf(<<Component(<<"E", "n", "g", "i", "n", "e">>),
                             Component(<<"c", "o", "n", "t", "a", "i", "n", "e", "r", "d">>)>>)
\* what engines report: a failure, no components, Docker's components, Podman's
\* ("Podman Engine" after "Conmon"), a lower-case podman after a nameless
\* component, and a name that holds "podman" without starting with it
EngineVersions ==
    {VersionError, VersionOf(<<>>), DockerVersion,
     VersionOf(<<Component(<<"C", "o", "n", "m", "o", "n">>),
                 Component(<<"P", "o", "d", "m", "a", "n", " ", "E", "n", "g", "i", "n", "e">>)>>),
     VersionOf(<<NoEnv, Component(<<"p", "o", "d", "m", "a", "n">>)>>),
     VersionOf(<<Component(<<"n", "o", "p", "o", "d", "m", "a", "n">>)>>)}

\* a detection that compares the names as reported, without lower()
DetectPodman_CaseSensitive(v) ==
    LET podman == <<"p", "o", "d", "m", "a", "n">>
        name(c) == IF "Name" \in DOMAIN c THEN c.Name ELSE <<>>
        startswith(s) == Len(s) >= Len(podman) /\ \A i \in 1..Len(podman) : s[i] = podman[i]
    IN ~v.error /\ \E i \in 1..Len(v.components) : startswith(name(v.components[i]))

\* __init__: any((c.get("Name") or "").lower().startswith("podman") for c in comps),
\* False when the query raised
DetectPodman(v) ==
    LET podman == <<"p", "o", "d", "m", "a", "n">>
        lower(ch) == CASE ch = "P" -> "p" [] ch = "E" -> "e" [] ch = "C" -> "c" [] OTHER -> ch
        name(c) == IF "Name" \in DOMAIN c THEN c.Name ELSE <<>>
        startswith(s) == Len(s) >= Len(podman) /\ \A i \in 1..Len(podman) : lower(s[i]) = podman[i]
    IN ~v.error /\ \E i \in 1..Len(v.components) : startswith(name(v.components[i]))

\* hosts: an ordinary Unix user, root on Unix, and Windows (no os.getuid)
LinuxHost == [system |-> "Linux", uid |-> HostUid, gid |-> HostGid]
Hosts == {LinuxHost, [system |-> "Linux", uid |-> 0, gid |-> 0],
          [system |-> "Windows", uid |-> -1, gid |-> -1]}

\* no second manager
NoPeer == [pc |-> "off", tree |-> <<>>, build |-> [repo |-> "", tag |-> <<>>], cur |-> 0]

\* calls are not recorded
NoHistory == [on |-> FALSE, runs |-> <<>>]

\* -------------------------------------------------------------- file system
Byte == {0, 1}
Manifest == "pyproject.toml"
\* files under src/, with their rank in sorted(Path) order and their suffix
SrcPaths == {"src/a.py", "src/b.py", "src/c.pyc"}
PathRank(p) == CASE p = "src/a.py" -> 1 [] p = "src/b.py" -> 2 [] p = "src/c.pyc" -> 3
Suffix(p) == IF p = "src/c.pyc" THEN ".pyc" ELSE ".py"
AllPaths == {Manifest} \cup SrcPaths

RECURSIVE SeqsUpTo(_)
SeqsUpTo(n) == IF n = 0 THEN {<<>>}
               ELSE LET S == SeqsUpTo(n - 1)
                    IN S \cup {Append(s, b) : s \in {t \in S : Len(t) = n - 1}, b \in Byte}
Contents == SeqsUpTo(MaxLen)

\* sorted(src_root.rglob("*")): the paths of a set in ascending order
RECURSIVE Sorted(_)
Sorted(S) == IF S = {} THEN <<>>
             ELSE LET m == CHOOSE p \in S : \A q \in S : PathRank(p) <= PathRank(q)
                  IN <<m>> \o Sorted(S \ {m})

\* the bytes fed to the hash, in order: _hash_file per file, no separators
RECURSIVE HashFiles(_, _)
HashFiles(tree, paths) ==
    IF paths = <<>> THEN <<>>
    ELSE LET p == Head(paths)
         IN (IF Suffix(p) \in {".pyc", ".pyo"} THEN <<>> ELSE tree[p])
            \o HashFiles(tree, Tail(paths))

HashedStream(tree) ==
    (IF Manifest \in DOMAIN tree THEN tree[Manifest] ELSE <<>>)
    \o HashFiles(tree, Sorted(DOMAIN tree \cap SrcPaths))

\* hashlib.sha256().hexdigest(): an idealised collision-free digest of fixed
\* length; the message is recoverable from its leading digits
Hexdigest(msg) == [i \in 1..DigestHexLen |->
                     IF i = 1 THEN Len(msg)
                     ELSE IF i - 1 <= Len(msg) THEN 1 + msg[i - 1] ELSE 0]

\* src_root.rglob("*"): the files under src/ in whatever order the file
\* system yields them
Listings(tree) ==
    LET S == DOMAIN tree \cap SrcPaths
    IN {l \in [1..Cardinality(S) -> S] : \A i, j \in 1..Cardinality(S) : l[i] = l[j] => i = j}

\* a listing put into the sequence p belongs in
RECURSIVE InsertPath(_, _)
InsertPath(p, sortedSeq) ==
    IF sortedSeq = <<>> THEN <<p>>
    ELSE IF PathRank(p) <= PathRank(Head(sortedSeq)) THEN <<p>> \o sortedSeq
    ELSE <<Head(sortedSeq)>> \o InsertPath(p, Tail(sortedSeq))

\* the listing hashed as the file system yielded it
SortedListing_AsListed(listing) == listing

\* sorted(...) of a listing
RECURSIVE SortedListing(_)
SortedListing(listing) ==
    IF listing = <<>> THEN <<>>
    ELSE InsertPath(Head(listing), SortedListing(Tail(listing)))

\* _compute_cache_key over a given listing of src/
KeyFromListing(tree, listing) ==
    Hexdigest((IF Manifest \in DOMAIN tree THEN tree[Manifest] ELSE <<>>)
              \o HashFiles(tree, SortedListing(listing)))

\* a key over pyproject.toml alone, the src/ tree left out
_compute_cache_key_ManifestOnly(tree) ==
    Hexdigest(IF Manifest \in DOMAIN tree THEN tree[Manifest] ELSE <<>>)

_compute_cache_key(tree) == Hexdigest(HashedStream(tree))

\* the whole key as the tag
_cached_image_ref_FullKey(tree) ==
    [repo |-> CACHED_REPO_NAME, tag |-> _compute_cache_key(tree)]

\* one tag for every content
_cached_image_ref_Fixed(tree) ==
    [repo |-> CACHED_REPO_NAME, tag |-> SubSeq(Hexdigest(<<>>), 1, TagLen)]

\* _cached_image_ref: (repo, tag, full) with tag = key[:12]
_cached_image_ref(tree) ==
    [repo |-> CACHED_REPO_NAME, tag |-> SubSeq(_compute_cache_key(tree), 1, TagLen)]

\* ------------------------------------------------------------------- state
VARIABLES
    fs,          \* project tree: path -> bytes, for the files that exist
    images,      \* local image store: ref -> [provisioned, installed]
    containers,  \* containers present in the engine: id -> record
    pc,          \* position of the calling thread
    args,        \* the call in progress (or the last call): op and parameters
    cur,         \* local `container`: id of the container of the current step
    code,        \* local `code`
    imageRef,    \* local `cached_ref` / `image_ref`
    build,       \* prepare_cached_image's (repo, tag)
    pending,     \* exception in flight while a finally block runs
    outcome,     \* how the last call ended: return value or exception
    trace,       \* engine operations of the call in progress, in order
    mine,        \* ids of the containers the call in progress launched
    built,       \* hashed streams for which prepare_cached_image committed
    stale,       \* a tracked file changed since the last successful prepare
    prepares,    \* times the call in progress entered prepare_cached_image
    launches,    \* what the call in progress passed to client.containers.run
    fresh,       \* a prepare succeeded and no tracked byte changed since
    warm,        \* at the call, an image built from the current content existed
    hashed,      \* the byte stream behind prepare_cached_image's key
    config,      \* self.config: the ContainerConfig the manager was built with
    proc,        \* a process started from one of the package's entry points
    keylog,      \* the _compute_cache_key calls so far: tree, listing, key
    unreadable,  \* files of the project tree that open() fails on
    version,     \* what client.version() gave the constructor
    _is_podman,  \* self._is_podman
    history,     \* the calls made so far, when they are recorded
    host,        \* the host the manager runs on: platform.system(), os.getuid(), os.getgid()
    peer,        \* a second manager building its own project tree on the same engine
    request,     \* the HTTP request the API server is handling, and its response
    zip_service, \* a ZipService.unzip call: the archive, the directory, what was written
    http_service,\* an HttpService object, with the sockets and threads of its process
    calls, faults, interrupts, edits   \* calls, failures, interrupts, edits still to come

vars == <<fs, images, containers, pc, args, cur, code, imageRef, build,
          pending, outcome, trace, mine, built, stale, prepares, launches, fresh, warm,
          hashed, config, proc, keylog, unreadable, version, _is_podman, history, host, peer,
          request, zip_service, http_service, calls, faults, interrupts, edits>>
\* the request in hand and the service objects of a task process
Services == <<request, zip_service, http_service>>

NoRef == [repo |-> "", tag |-> <<>>]
NoArgs == [op |-> "none", use_cache |-> FALSE, rebuild_cache |-> FALSE,
           stream_logs |-> FALSE, host_port |-> 0]
NoOutcome == [kind |-> "none", exc |-> "", code |-> -1, ref |-> NoRef,
              flag |-> FALSE, logs |-> FALSE]
ReturnCode(c) == [NoOutcome EXCEPT !.kind = "return", !.code = c]
ReturnRef(r) == [NoOutcome EXCEPT !.kind = "return", !.ref = r]
ReturnBool(b) == [NoOutcome EXCEPT !.kind = "return", !.flag = b]
Raised(e) == [NoOutcome EXCEPT !.kind = "raise", !.exc = e]

\* the environment variable of the sentinel as a process finds it
EnvVar(set, val) == [set |-> set, val |-> val]
\* no process
NoProc == [entry |-> "none", sentinel |-> EnvVar(FALSE, ""), base_url |-> "", zip |-> "none",
           html |-> 0, pc |-> "none", steps |-> <<>>, exit |-> -1, diag |-> FALSE,
           refused |-> 0, requests |-> 0]
\* no request, no extraction, no HTTP service
NoRequest == [pc |-> "none", endpoint |-> "", sentinel |-> EnvVar(FALSE, ""), valid |-> FALSE,
              auth |-> "open", upload |-> "ok", urls |-> "public", status |-> 0,
              detail |-> "", steps |-> <<>>]
NoUnzip == [pc |-> "none", archive |-> <<>>, links |-> {}, i |-> 0, written |-> {},
            extracted_count |-> 0, skipped_count |-> 0, warned |-> FALSE, oserror |-> FALSE,
            outcome |-> ""]
NoHttp == [pc |-> "none", _server |-> 0, _thread |-> 0, host |-> "localhost", port |-> 0,
           base_url |-> <<>>, listening |-> {}, alive |-> {}, created |-> 0, log |-> <<>>]

InitTree == [p \in {Manifest, "src/a.py", "src/c.pyc"} |-> IF p = Manifest THEN <<1>> ELSE <<0>>]
EmptyTree == [p \in {} |-> <<>>]
BaseImage == [provisioned |-> FALSE, installed |-> EmptyTree]

\* exit statuses a container's own command can end with
ExitCodes == {0, 1, 2}
\* exit statuses after container.stop: graceful exit on SIGTERM, or SIGKILL
StopExitCodes == {0, 137}

\* image stores a manager can find: empty, the base image alone, and the base
\* image with a cached image built earlier from this tree or from another one
OtherTree == [InitTree EXCEPT !["src/a.py"] = <<1>>]
CachedImage(tree) == [provisioned |-> TRUE, installed |-> tree]
InitStores ==
    LET base == [r \in {DEFAULT_BASE_IMAGE} |-> BaseImage]
    IN {EmptyTree, base,
        [r \in {DEFAULT_BASE_IMAGE, _cached_image_ref(InitTree)} |->
            IF r = DEFAULT_BASE_IMAGE THEN BaseImage ELSE CachedImage(InitTree)],
        [r \in {DEFAULT_BASE_IMAGE, _cached_image_ref(OtherTree)} |->
            IF r = DEFAULT_BASE_IMAGE THEN BaseImage ELSE CachedImage(OtherTree)]}

Init ==
    /\ fs = InitTree
    /\ images \in InitStores
    /\ containers = EmptyTree
    /\ pc = "idle"
    /\ args = NoArgs
    /\ cur = 0
    /\ code = -1
    /\ imageRef = NoRef
    /\ build = NoRef
    /\ pending = ""
    /\ outcome = NoOutcome
    /\ trace = <<>>
    /\ mine = {}
    /\ built = {}
    /\ stale = FALSE
    /\ prepares = 0
    /\ launches = <<>>
    /\ fresh = FALSE
    /\ warm = FALSE
    /\ hashed = <<>>
    /\ config \in {[DefaultConfig EXCEPT !.env = e] : e \in ConfigEnvs}
    /\ proc = NoProc
    /\ keylog = <<>>
    /\ unreadable = {}
    /\ version = DockerVersion
    /\ _is_podman = DetectPodman(DockerVersion)
    /\ history = NoHistory
    /\ peer = NoPeer
    /\ request = NoRequest
    /\ zip_service = NoUnzip
    /\ http_service = NoHttp
    /\ host = LinuxHost
    /\ calls = MaxCalls
    /\ faults = MaxFaults
    /\ interrupts = MaxInterrupts
    /\ edits = 0

\* --------------------------------------------------------- engine helpers
\* the id the engine gives the next container: one no present container has
FreeId == CHOOSE i \in 1..(Cardinality(DOMAIN containers) + 1) : i \notin DOMAIN containers
Put(f, k, v) == [x \in DOMAIN f \cup {k} |-> IF x = k THEN v ELSE f[x]]
Drop(f, k) == [x \in DOMAIN f \ {k} |-> f[x]]
CanFault == faults > 0
Fault == faults' = faults - 1
NoFault == UNCHANGED faults
Interrupt == interrupts > 0 /\ interrupts' = interrupts - 1
\* one engine operation of the call: on the store, the provisioning container
\* or the task container; how it ended; its argument
Ev(who, op, res) == [who |-> who, op |-> op, res |-> res, arg |-> 0]
Log(who, op, res) == trace' = Append(trace, Ev(who, op, res))
Finish(o) == pc' = "done" /\ outcome' = o /\ pending' = ""
Goto(l) == pc' = l /\ UNCHANGED <<outcome, pending>>
World == <<fs, edits, calls, fresh, warm, config, proc, keylog, unreadable, version,
           _is_podman, history, host, peer, Services>>
Engine == <<images, containers>>
Locals == <<args, cur, code, imageRef, build, mine, prepares, launches, hashed>>

\* an exit status reduced to success or failure
StatusCode_Normalised(status) ==
    IF "StatusCode" \in DOMAIN status /\ status.StatusCode = 0 THEN 0 ELSE 1

\* status.get("StatusCode", 1)
StatusCode(status) == IF "StatusCode" \in DOMAIN status THEN status.StatusCode ELSE 1

\* _host_uid_gid and the user of the cached path: f"{uid}:{gid}", or None (no
\* user argument, the image's default user) where the host has no uid and gid
HostUser ==
    IF host.system = "Windows" THEN [kind |-> "none", uid |-> -1, gid |-> -1]
    ELSE [kind |-> "ids", uid |-> host.uid, gid |-> host.gid]
RootUser == [kind |-> "root", uid |-> 0, gid |-> 0]

\* self.config.env or {}
EnvOrEmpty(e) == IF e.none \/ DOMAIN e.map = {} THEN NoEnv ELSE e.map

\* the configured mapping winning over the sentinel
TaskEnv_ConfigWins ==
    LET m == EnvOrEmpty(config.env)
    IN IF IN_CONTAINER_ENV \in DOMAIN m THEN m ELSE Put(m, IN_CONTAINER_ENV, IN_CONTAINER_VALUE)

\* env = dict(self.config.env or {}); env[IN_CONTAINER_ENV] = IN_CONTAINER_VALUE
TaskEnv == Put(EnvOrEmpty(config.env), IN_CONTAINER_ENV, IN_CONTAINER_VALUE)

\* the sentinel written into the configured mapping itself
\* (env = self.config.env), where there is a non-empty one
RunEnv_Aliased ==
    [env |-> TaskEnv,
     config |-> IF config.env.none \/ DOMAIN config.env.map = {} THEN config
                ELSE [config EXCEPT !.env = EnvOf(TaskEnv)]]

\* what lines 331-332 leave: the per-run mapping, a copy made by dict(), and
\* self.config as it was
RunEnv == [env |-> TaskEnv, config |-> config]

\* environment=self.config.env of the provisioning container
ProvEnv == IF config.env.none THEN NoEnv ELSE config.env.map

\* _command_cached / _command_uncached / _command_api_cached / _command_api_uncached:
\* whether the command bootstraps and installs inline, and the entry point
Command(op, cached) ==
    [bootstrap |-> ~cached,
     python |-> IF cached THEN CACHED_VENV_PATH ELSE "/tmp/venv",
     module |-> IF op = "api" THEN "scanner.web.server" ELSE "scanner.main"]
\* prepare_cached_image's cmd: apt-get, venv at CACHED_VENV_PATH, pip install
ProvCommand == [bootstrap |-> TRUE, python |-> CACHED_VENV_PATH, module |-> ""]

\* bind mounts without the relabeling suffix on either engine
_volumes_Plain ==
    LET repo_src == <<"project_root">>
        data_dir == <<"project_root", config.data_subdir>>
    IN [h \in {repo_src, data_dir} |->
          IF h = data_dir
          THEN [bind |-> <<config.workdir, config.data_subdir>>, mode |-> "rw"]
          ELSE [bind |-> <<config.workdir>>, mode |-> "ro"]]

\* _volumes: a dict keyed by host path (paths are sequences of components):
\* the project root at container_repo_path, project_root / data_subdir at
\* container_data_path, the modes with ",Z" on Podman
_volumes ==
    LET repo_src == <<"project_root">>
        data_dir == <<"project_root", config.data_subdir>>
    IN [h \in {repo_src, data_dir} |->
          IF h = data_dir
          THEN [bind |-> <<config.workdir, config.data_subdir>>,
                mode |-> IF _is_podman THEN "rw,Z" ELSE "rw"]
          ELSE [bind |-> <<config.workdir>>,
                mode |-> IF _is_podman THEN "ro,Z" ELSE "ro"]]

\* client.containers.run(image, detach=True, auto_remove=False, ...);
\* run_kwargs["shm_size"] is set if not self._is_podman and self.config.shm_size
NewContainer(kind, image, command, user, env, ports) ==
    [kind |-> kind, image |-> image, command |-> command, user |-> user,
     env |-> env, ports |-> ports, working_dir |-> config.workdir, volumes |-> _volumes,
     shm_size |-> IF ~_is_podman /\ config.shm_size # "" THEN {config.shm_size} ELSE {},
     state |-> "running", code |-> -1, tree |-> EmptyTree]

\* a key that leaves out the files that cannot be opened
ReadKey_SkipsUnreadable(tree) ==
    [err |-> FALSE, ref |-> _cached_image_ref([p \in DOMAIN tree \ unreadable |-> tree[p]])]

\* _cached_image_ref() on the project tree: _hash_file opens the manifest and
\* every file under src/ that is not a compiled file; no caller catches the
\* OSError of open()
ReadKey(tree) ==
    IF \E p \in DOMAIN tree \cap unreadable : p = Manifest \/ Suffix(p) \notin {".pyc", ".pyo"}
    THEN [err |-> TRUE, ref |-> NoRef]
    ELSE [err |-> FALSE, ref |-> _cached_image_ref(tree)]

\* ------------------------------------------------------------ environment
\* a file of the project tree loses its read permission, before or during a call
Chmod(p) ==
    /\ CanFault /\ Fault
    /\ p \in DOMAIN fs \ unreadable
    /\ unreadable' = unreadable \cup {p}
    /\ UNCHANGED <<fs, images, containers, pc, args, cur, code, imageRef, build, pending,
                   outcome, trace, mine, built, stale, prepares, launches, fresh, warm, hashed,
                   config, proc, keylog, version, _is_podman, history, host, peer, Services, calls,
                   interrupts,
                   edits>>

\* a file of the project tree is rewritten between two manager calls
EditSource(p, c) ==
    /\ pc = "idle"
    /\ edits > 0
    /\ p \in DOMAIN fs
    /\ c # fs[p]
    /\ fs' = [fs EXCEPT ![p] = c]
    /\ edits' = edits - 1
    /\ LET changed == HashedStream(fs') # HashedStream(fs)
       IN /\ stale' = (stale \/ (built # {} /\ changed))
          /\ fresh' = (fresh /\ ~changed)
    /\ UNCHANGED <<images, containers, pc, args, cur, code, imageRef, build, pending, config, proc,
                   keylog, unreadable, version, _is_podman, history, host, peer, Services,
                   outcome, trace, mine, built, prepares, launches, warm, hashed, calls,
                   faults, interrupts>>

\* the command of the container the call is running ends by itself; a
\* provisioning container has by then copied and installed the tree it saw
ContainerExit(id, c) ==
    /\ id \in DOMAIN containers
    /\ pc \notin {"idle", "done"} /\ id = cur
    /\ containers[id].state = "running"
    /\ containers' = [containers EXCEPT ![id].state = "exited", ![id].code = c,
                         ![id].tree = IF containers[id].kind = "prov" THEN fs ELSE EmptyTree]
    /\ UNCHANGED <<fs, images, pc, args, cur, code, imageRef, build, pending, outcome, config, proc,
                   keylog, unreadable, version, _is_podman, history, host, peer, Services,
                   trace, mine, built, stale, prepares, launches, fresh, warm, hashed,
                   calls, faults, interrupts, edits>>

\* ------------------------------------------------------------------ calls
Begin(a, first) ==
    /\ pc = "idle"
    /\ calls > 0
    /\ calls' = calls - 1
    /\ args' = a
    /\ pc' = first
    /\ warm' = (HashedStream(fs) \in built)
    /\ history' = IF history.on
                  THEN [history EXCEPT !.runs = Append(@, [args |-> a, images |-> images,
                                                          trace |-> <<>>, launches |-> <<>>,
                                                          outcome |-> NoOutcome])]
                  ELSE history
    /\ UNCHANGED <<fs, images, containers, built, stale, fresh, faults, interrupts, edits, config, proc,
                   keylog, unreadable, version, _is_podman, host, peer, Services,
                   outcome, trace, mine, cur, code, imageRef, build, pending, prepares,
                   launches, hashed>>

\* the call has returned or raised and its frame is gone
Returned ==
    /\ pc = "done"
    /\ pc' = "idle"
    /\ args' = NoArgs
    /\ outcome' = NoOutcome
    /\ trace' = <<>>
    /\ mine' = {}
    /\ cur' = 0
    /\ code' = -1
    /\ imageRef' = NoRef
    /\ build' = NoRef
    /\ pending' = ""
    /\ prepares' = 0
    /\ launches' = <<>>
    /\ warm' = FALSE
    /\ hashed' = <<>>
    /\ history' = IF history.on
                  THEN [history EXCEPT !.runs[Len(history.runs)] =
                            [@ EXCEPT !.trace = trace, !.launches = launches, !.outcome = outcome]]
                  ELSE history
    /\ UNCHANGED <<fs, images, containers, built, stale, fresh, calls, faults, interrupts, config, proc,
                   keylog, unreadable, version, _is_podman, host, peer, Services,
                   edits>>

\* run_scanner(use_cache, rebuild_cache, stream_logs): _prepare_host_dirs, then dispatch
CallRunScanner(uc, rb, sl) ==
    Begin([op |-> "scan", use_cache |-> uc, rebuild_cache |-> rb, stream_logs |-> sl,
           host_port |-> 0], "dispatch")

\* run_api_server(host_port, use_cache, rebuild_cache, stream_logs)
CallRunApiServer(hp, uc, rb, sl) ==
    Begin([op |-> "api", use_cache |-> uc, rebuild_cache |-> rb, stream_logs |-> sl,
           host_port |-> hp], "dispatch")

\* prepare_cached_image() called directly (the CLI's prepare command)
CallPrepare == Begin([NoArgs EXCEPT !.op = "prepare"], "prep_base")

\* cached_image_exists() called directly
CallCachedImageExists == Begin([NoArgs EXCEPT !.op = "exists"], "exists")

\* an existence check that pulls the base image when the cached one is missing
CachedImageExists_PullsOnMiss ==
    /\ pc = "exists"
    /\ \/ /\ LET hit == _cached_image_ref(fs) \in DOMAIN images
             IN /\ Finish(ReturnBool(hit))
                /\ Log("store", "get", IF hit THEN "hit" ELSE "miss")
                /\ images' = IF hit THEN images ELSE Put(images, DEFAULT_BASE_IMAGE, BaseImage)
          /\ NoFault
       \/ /\ CanFault /\ Fault
          /\ Finish(Raised("APIError"))
          /\ Log("store", "get", "error")
          /\ UNCHANGED images
    /\ UNCHANGED <<World, interrupts, containers, Locals, built, stale>>

\* cached_image_exists: images.get(full) found, ImageNotFound, or another error
CachedImageExists ==
    /\ pc = "exists"
    /\ \/ /\ ReadKey(fs).err
          /\ Finish(Raised("OSError"))
          /\ UNCHANGED <<trace, faults>>
       \/ /\ ~ReadKey(fs).err
          /\ LET hit == ReadKey(fs).ref \in DOMAIN images
             IN /\ Finish(ReturnBool(hit))
                /\ Log("store", "get", IF hit THEN "hit" ELSE "miss")
          /\ NoFault
       \/ /\ ~ReadKey(fs).err
          /\ CanFault /\ Fault
          /\ Finish(Raised("APIError"))
          /\ Log("store", "get", "error")
    /\ UNCHANGED <<World, interrupts, Engine, Locals, built, stale>>

\* the existence check ignored: every cached dispatch provisions
NeedPrepare_Always(rebuild_cache, exists) == TRUE

\* a dispatch that neither looks at the store nor provisions
NeedPrepare_Never(rebuild_cache, exists) == FALSE

\* if rebuild_cache or not self.cached_image_exists()
NeedPrepare(rebuild_cache, exists) == rebuild_cache \/ ~exists

\* run_scanner / run_api_server: the choice of path
Dispatch ==
    /\ pc = "dispatch"
    /\ \/ /\ ~args.use_cache
          /\ Goto("ensure_base")
          /\ UNCHANGED <<trace, faults>>
       \/ /\ args.use_cache /\ args.rebuild_cache
          /\ Goto(IF NeedPrepare(args.rebuild_cache, FALSE) THEN "prep_base" ELSE "resolve")
          /\ UNCHANGED <<trace, faults>>
       \/ /\ args.use_cache /\ ~args.rebuild_cache
          /\ ReadKey(fs).err
          /\ Finish(Raised("OSError"))
          /\ UNCHANGED <<trace, faults>>
       \/ /\ args.use_cache /\ ~args.rebuild_cache
          /\ ~ReadKey(fs).err
          /\ LET hit == ReadKey(fs).ref \in DOMAIN images
             IN /\ Goto(IF NeedPrepare(args.rebuild_cache, hit) THEN "prep_base" ELSE "resolve")
                /\ Log("store", "get", IF hit THEN "hit" ELSE "miss")
          /\ NoFault
       \/ /\ args.use_cache /\ ~args.rebuild_cache
          /\ ~ReadKey(fs).err
          /\ CanFault /\ Fault
          /\ Finish(Raised("APIError"))
          /\ Log("store", "get", "error")
    /\ UNCHANGED <<World, interrupts, Engine, Locals, built, stale>>

\* a base-image check that pulls without looking at the store
ensure_base_image_AlwaysPulls(next) ==
    \/ /\ images' = Put(images, DEFAULT_BASE_IMAGE, BaseImage)
       /\ Goto(next)
       /\ Log("store", "pull", "ok")
       /\ NoFault
    \/ /\ CanFault /\ Fault
       /\ Finish(Raised("APIError"))
       /\ Log("store", "pull", "error")
       /\ UNCHANGED images

\* ensure_base_image: images.get(base); on ImageNotFound, images.pull(base)
ensure_base_image(next) ==
    \/ /\ DEFAULT_BASE_IMAGE \in DOMAIN images
       /\ Goto(next)
       /\ Log("store", "get_base", "hit")
       /\ UNCHANGED <<images, faults>>
    \/ /\ DEFAULT_BASE_IMAGE \notin DOMAIN images
       /\ images' = Put(images, DEFAULT_BASE_IMAGE, BaseImage)
       /\ Goto(next)
       /\ trace' = trace \o <<Ev("store", "get_base", "miss"), Ev("store", "pull", "ok")>>
       /\ NoFault
    \/ /\ DEFAULT_BASE_IMAGE \notin DOMAIN images
       /\ CanFault /\ Fault
       /\ Finish(Raised("APIError"))
       /\ trace' = trace \o <<Ev("store", "get_base", "miss"), Ev("store", "pull", "error")>>
       /\ UNCHANGED images
    \/ /\ CanFault /\ Fault
       /\ Finish(Raised("APIError"))
       /\ Log("store", "get_base", "error")
       /\ UNCHANGED images

\* the uncached path: self.ensure_base_image(), then the base image is run
EnsureBase ==
    /\ pc = "ensure_base"
    /\ ensure_base_image("launch")
    /\ imageRef' = DEFAULT_BASE_IMAGE
    /\ UNCHANGED <<World, interrupts, containers, args, cur, code, build, mine, built, stale,
                   prepares, launches, hashed>>

\* _, _, cached_ref = self._cached_image_ref()
Resolve ==
    /\ pc = "resolve"
    /\ imageRef' = IF ReadKey(fs).err THEN imageRef ELSE ReadKey(fs).ref
    /\ IF ReadKey(fs).err THEN Finish(Raised("OSError")) ELSE Goto("launch")
    /\ UNCHANGED <<World, interrupts, Engine, args, cur, code, build, mine, built, stale,
                   trace, faults, prepares, launches, hashed>>

\* ------------------------------------------------ running the task container
\* the cached path's user on both paths
TaskUser_Host(cached) == HostUser

\* root on both paths
TaskUser_Root(cached) == RootUser

\* user = f"{uid}:{gid}" on the cached path, "root" on the slow path
TaskUser(cached) == IF cached THEN HostUser ELSE RootUser

\* ports={"8008/tcp": host_port} for the API server, none for the scanner
TaskPorts(op, host_port) == IF op = "api" THEN {<<ApiPort, host_port>>} ELSE {}

\* _run_with_image / _run_api_with_image up to client.containers.run, which
\* creates the container and then starts it: when it raises, the engine has
\* refused to create the container, or has created it and failed to start it
\* (a host port already in use), and the created container stays
Launch ==
    /\ pc = "launch"
    /\ LET cached == args.use_cache
           c == NewContainer("task", imageRef, Command(args.op, cached), TaskUser(cached),
                             RunEnv.env, TaskPorts(args.op, args.host_port))
       IN /\ launches' = Append(launches, c)
          /\ config' = RunEnv.config
          /\ \/ /\ imageRef \in DOMAIN images
                /\ containers' = Put(containers, FreeId, c)
                /\ cur' = FreeId
                /\ mine' = mine \cup {FreeId}
                /\ Goto(IF args.stream_logs THEN "stream" ELSE "wait")
                /\ Log("task", "run", "ok")
                /\ NoFault
             \/ /\ imageRef \notin DOMAIN images
                /\ Finish(Raised("ImageNotFound"))
                /\ Log("task", "run", "error")
                /\ UNCHANGED <<containers, cur, mine, faults>>
             \/ /\ CanFault /\ Fault
                /\ Finish(Raised("APIError"))
                /\ Log("task", "run", "error")
                /\ \/ UNCHANGED <<containers, mine>>
                   \/ /\ containers' = Put(containers, FreeId, [c EXCEPT !.state = "created"])
                      /\ mine' = mine \cup {FreeId}
                /\ UNCHANGED cur
    /\ UNCHANGED <<fs, edits, calls, fresh, warm, proc, keylog, unreadable, version,
                   _is_podman, history, host, peer, Services>>
    /\ UNCHANGED <<interrupts, images, args, code, imageRef, build, built, stale,
                   prepares, hashed>>

\* container.stop(timeout=...) on a container: it has exited afterwards
Stopped(id, sc) ==
    IF containers[id].state = "running"
    THEN [containers EXCEPT ![id].state = "exited", ![id].code = sc,
             ![id].tree = IF containers[id].kind = "prov" THEN fs ELSE EmptyTree]
    ELSE containers

\* the stop request of the interrupt handlers: container.stop(timeout=5)
StopEv(who, res) == [Ev(who, "stop", res) EXCEPT !.arg = StopTimeout]

\* the log loop ends when the container has exited
StreamEnd ==
    /\ pc = "stream"
    /\ containers[cur].state = "exited"
    /\ Goto("wait")
    /\ Log("task", "logs", "ok")
    /\ UNCHANGED <<World, interrupts, Engine, Locals, built, stale, faults>>

\* only the API variant wraps container.stop in try/except Exception
StopSwallowed(op) == op = "api"

\* the interrupt handler without its stop request
StreamInterrupt_NoStop ==
    /\ pc = "stream"
    /\ Interrupt
    /\ Goto("wait")
    /\ Log("task", "logs", "interrupt")
    /\ UNCHANGED <<World, Engine, Locals, built, stale, faults>>

\* except KeyboardInterrupt: container.stop(timeout=5)
StreamInterrupt ==
    /\ pc = "stream"
    /\ Interrupt
    /\ \/ /\ \E sc \in StopExitCodes : containers' = Stopped(cur, sc)
          /\ Goto("wait")
          /\ trace' = trace \o <<Ev("task", "logs", "interrupt"), StopEv("task", "ok")>>
          /\ NoFault
       \/ /\ CanFault /\ Fault
          /\ UNCHANGED containers
          /\ IF StopSwallowed(args.op) THEN Goto("wait") ELSE Finish(Raised("APIError"))
          /\ trace' = trace \o <<Ev("task", "logs", "interrupt"), StopEv("task", "error")>>
    /\ UNCHANGED <<World, images, Locals, built, stale>>

\* container.logs(stream=True, follow=True) raises something else: not caught
StreamError ==
    /\ pc = "stream"
    /\ CanFault /\ Fault
    /\ Finish(Raised("APIError"))
    /\ Log("task", "logs", "error")
    /\ UNCHANGED <<World, interrupts, Engine, Locals, built, stale>>

\* except Exception: code = 0
WaitFallbackCode == 0

\* container.wait() outside any try block: its error leaves the call
Wait_Unhandled ==
    /\ pc = "wait"
    /\ \/ /\ containers[cur].state = "exited"
          /\ code' = StatusCode([StatusCode |-> containers[cur].code])
          /\ Log("task", "wait", "ok")
          /\ Goto("remove")
          /\ NoFault
       \/ /\ CanFault /\ Fault
          /\ Finish(Raised("APIError"))
          /\ Log("task", "wait", "error")
          /\ UNCHANGED code
    /\ UNCHANGED <<World, interrupts, Engine, args, cur, imageRef, build, mine, built, stale,
                   prepares, launches, hashed>>

\* the handler falling back to the default of status.get("StatusCode", 1)
Wait_FallbackFailure ==
    /\ pc = "wait"
    /\ \/ /\ containers[cur].state = "exited"
          /\ code' = StatusCode([StatusCode |-> containers[cur].code])
          /\ Log("task", "wait", "ok")
          /\ NoFault
       \/ /\ CanFault /\ Fault
          /\ code' = StatusCode([Id |-> cur])
          /\ Log("task", "wait", "error")
    /\ Goto("remove")
    /\ UNCHANGED <<World, interrupts, Engine, args, cur, imageRef, build, mine, built, stale,
                   prepares, launches, hashed>>

\* status = container.wait(); code = int(status.get("StatusCode", 1))
Wait ==
    /\ pc = "wait"
    /\ \/ /\ containers[cur].state = "exited"
          /\ code' = StatusCode([StatusCode |-> containers[cur].code])
          /\ Log("task", "wait", "ok")
          /\ NoFault
       \/ /\ CanFault /\ Fault
          /\ code' = WaitFallbackCode
          /\ Log("task", "wait", "error")
    /\ Goto("remove")
    /\ UNCHANGED <<World, interrupts, Engine, args, cur, imageRef, build, mine, built, stale,
                   prepares, launches, hashed>>

\* KeyboardInterrupt inside container.wait(): not an Exception, the finally
\* block runs and the interrupt goes on
WaitInterrupt ==
    /\ pc = "wait"
    /\ Interrupt
    /\ pc' = "remove"
    /\ pending' = "KeyboardInterrupt"
    /\ Log("task", "wait", "interrupt")
    /\ UNCHANGED <<World, Engine, Locals, built, stale, outcome, faults>>

\* a reaper that commits the task container under the cache tag before removing it
Remove_CommitsFirst ==
    /\ pc = "remove"
    /\ images' = Put(images, _cached_image_ref(fs), CachedImage(fs))
    /\ \/ /\ containers' = Drop(containers, cur)
          /\ Log("task", "remove", "ok")
          /\ NoFault
       \/ /\ CanFault /\ Fault
          /\ Log("task", "remove", "error")
          /\ UNCHANGED containers
    /\ Finish(IF pending # "" THEN Raised(pending) ELSE ReturnCode(code))
    /\ UNCHANGED <<World, interrupts, Locals, built, stale>>

\* finally: try: container.remove(force=True) except Exception: pass; return code
Remove ==
    /\ pc = "remove"
    /\ \/ /\ containers' = Drop(containers, cur)
          /\ Log("task", "remove", "ok")
          /\ NoFault
       \/ /\ CanFault /\ Fault
          /\ Log("task", "remove", "error")
          /\ UNCHANGED containers
    /\ Finish(IF pending # "" THEN Raised(pending) ELSE ReturnCode(code))
    /\ UNCHANGED <<World, interrupts, images, Locals, built, stale>>

\* ---------------------------------------------------- prepare_cached_image
\* self.ensure_base_image(); self._prepare_host_dirs()
PrepBase ==
    /\ pc = "prep_base"
    /\ ensure_base_image("prep_launch")
    /\ prepares' = prepares + 1
    /\ stale' = FALSE
    /\ UNCHANGED <<World, interrupts, containers, args, cur, code, imageRef, build, mine,
                   built, launches, hashed>>

\* repo, tag, full = self._cached_image_ref(); the provisioning container is
\* run from the base image as root with the configured environment
PrepLaunch ==
    /\ pc = "prep_launch"
    /\ build' = IF ReadKey(fs).err THEN build ELSE ReadKey(fs).ref
    /\ hashed' = IF ReadKey(fs).err THEN hashed ELSE HashedStream(fs)
    /\ LET c == NewContainer("prov", DEFAULT_BASE_IMAGE, ProvCommand, RootUser, ProvEnv, {})
       IN \/ /\ ReadKey(fs).err
             /\ Finish(Raised("OSError"))
             /\ UNCHANGED <<launches, containers, cur, mine, trace, faults>>
          \/ /\ ~ReadKey(fs).err
             /\ launches' = Append(launches, c)
             /\ \/ /\ containers' = Put(containers, FreeId, c)
                   /\ cur' = FreeId
                   /\ mine' = mine \cup {FreeId}
                   /\ Goto("prep_stream")
                   /\ Log("prov", "run", "ok")
                   /\ NoFault
                \/ /\ CanFault /\ Fault
                   /\ Finish(Raised("APIError"))
                   /\ Log("prov", "run", "error")
                   /\ \/ UNCHANGED <<containers, mine>>
                      \/ /\ containers' = Put(containers, FreeId, [c EXCEPT !.state = "created"])
                         /\ mine' = mine \cup {FreeId}
                   /\ UNCHANGED cur
    /\ UNCHANGED <<World, interrupts, images, args, code, imageRef, built, stale, prepares>>

PrepStreamEnd ==
    /\ pc = "prep_stream"
    /\ containers[cur].state = "exited"
    /\ Goto("prep_wait")
    /\ Log("prov", "logs", "ok")
    /\ UNCHANGED <<World, interrupts, Engine, Locals, built, stale, faults>>

\* except KeyboardInterrupt: container.stop(timeout=5), not wrapped
PrepStreamInterrupt ==
    /\ pc = "prep_stream"
    /\ Interrupt
    /\ \/ /\ \E sc \in StopExitCodes : containers' = Stopped(cur, sc)
          /\ Goto("prep_wait")
          /\ trace' = trace \o <<Ev("prov", "logs", "interrupt"), StopEv("prov", "ok")>>
          /\ NoFault
       \/ /\ CanFault /\ Fault
          /\ UNCHANGED containers
          /\ Finish(Raised("APIError"))
          /\ trace' = trace \o <<Ev("prov", "logs", "interrupt"), StopEv("prov", "error")>>
    /\ UNCHANGED <<World, images, Locals, built, stale>>

PrepStreamError ==
    /\ pc = "prep_stream"
    /\ CanFault /\ Fault
    /\ Finish(Raised("APIError"))
    /\ Log("prov", "logs", "error")
    /\ UNCHANGED <<World, interrupts, Engine, Locals, built, stale>>

\* a provisioning wait whose status is not looked at: every build is committed
PrepWait_IgnoresStatus ==
    /\ pc = "prep_wait"
    /\ \/ /\ containers[cur].state = "exited"
          /\ code' = StatusCode([StatusCode |-> containers[cur].code])
          /\ Goto("prep_commit")
          /\ Log("prov", "wait", "ok")
          /\ NoFault
       \/ /\ CanFault /\ Fault
          /\ Finish(Raised("APIError"))
          /\ Log("prov", "wait", "error")
          /\ UNCHANGED code
    /\ UNCHANGED <<World, interrupts, Engine, args, cur, imageRef, build, mine, built, stale,
                   prepares, launches, hashed>>

\* status = container.wait(); code = int(status.get("StatusCode", 1)); no handler
PrepWait ==
    /\ pc = "prep_wait"
    /\ \/ /\ containers[cur].state = "exited"
          /\ code' = StatusCode([StatusCode |-> containers[cur].code])
          /\ Goto(IF code' # 0 THEN "prep_fail" ELSE "prep_commit")
          /\ Log("prov", "wait", "ok")
          /\ NoFault
       \/ /\ CanFault /\ Fault
          /\ Finish(Raised("APIError"))
          /\ Log("prov", "wait", "error")
          /\ UNCHANGED code
    /\ UNCHANGED <<World, interrupts, Engine, args, cur, imageRef, build, mine, built, stale,
                   prepares, launches, hashed>>

PrepWaitInterrupt ==
    /\ pc = "prep_wait"
    /\ Interrupt
    /\ Finish(Raised("KeyboardInterrupt"))
    /\ Log("prov", "wait", "interrupt")
    /\ UNCHANGED <<World, Engine, Locals, built, stale, faults>>

\* if code != 0: logs = container.logs(); container.remove(force=True);
\* raise RuntimeError(code, logs)
PrepFail ==
    /\ pc = "prep_fail"
    /\ \/ /\ CanFault /\ Fault
          /\ Finish(Raised("APIError"))
          /\ Log("prov", "logs", "error")
          /\ UNCHANGED containers
       \/ /\ CanFault /\ Fault
          /\ Finish(Raised("APIError"))
          /\ trace' = trace \o <<Ev("prov", "logs", "ok"), Ev("prov", "remove", "error")>>
          /\ UNCHANGED containers
       \/ /\ containers' = Drop(containers, cur)
          /\ Finish([Raised("RuntimeError") EXCEPT !.code = code, !.logs = TRUE])
          /\ trace' = trace \o <<Ev("prov", "logs", "ok"), Ev("prov", "remove", "ok")>>
          /\ NoFault
    /\ UNCHANGED <<World, interrupts, images, Locals, built, stale>>

\* container.commit(repository=repo, tag=tag); container.remove(); return full
PrepCommit ==
    /\ pc = "prep_commit"
    /\ LET image == CachedImage(containers[cur].tree)
       IN \/ /\ CanFault /\ Fault
             /\ Finish(Raised("APIError"))
             /\ Log("prov", "commit", "error")
             /\ UNCHANGED <<images, containers, built, fresh>>
          \/ /\ CanFault /\ Fault
             /\ images' = Put(images, build, image)
             /\ built' = built \cup {hashed}
             /\ Finish(Raised("APIError"))
             /\ trace' = trace \o <<Ev("prov", "commit", "ok"), Ev("prov", "remove", "error")>>
             /\ UNCHANGED <<containers, fresh>>
          \/ /\ images' = Put(images, build, image)
             /\ built' = built \cup {hashed}
             /\ containers' = Drop(containers, cur)
             /\ fresh' = TRUE
             /\ IF args.op = "prepare" THEN Finish(ReturnRef(build)) ELSE Goto("resolve")
             /\ trace' = trace \o <<Ev("prov", "commit", "ok"), Ev("prov", "remove", "ok")>>
             /\ NoFault
    /\ UNCHANGED <<fs, edits, calls, warm, config, proc, keylog, unreadable, version,
                   _is_podman, history, host, peer, Services, interrupts, Locals, stale>>

\* ------------------------------------------------------------ specification
\* the steps of the calling thread and of the container it is running
Step ==
    \/ \E id \in DOMAIN containers, c \in ExitCodes : ContainerExit(id, c)
    \/ Returned
    \/ CachedImageExists
    \/ Dispatch
    \/ EnsureBase
    \/ Resolve
    \/ Launch
    \/ StreamEnd
    \/ StreamError
    \/ Wait
    \/ Remove
    \/ PrepBase
    \/ PrepLaunch
    \/ PrepStreamEnd
    \/ PrepStreamError
    \/ PrepWait
    \/ PrepFail
    \/ PrepCommit

\* KeyboardInterrupt at the calling thread's blocking calls
Interrupts ==
    \/ StreamInterrupt
    \/ WaitInterrupt
    \/ PrepStreamInterrupt
    \/ PrepWaitInterrupt

\* one manager, any sequence of calls, over a fixed project tree
Next ==
    \/ \E p \in AllPaths : Chmod(p)
    \/ \E uc, rb, sl \in BOOLEAN : CallRunScanner(uc, rb, sl)
    \/ \E hp \in HostPorts, uc, rb, sl \in BOOLEAN : CallRunApiServer(hp, uc, rb, sl)
    \/ CallPrepare
    \/ CallCachedImageExists
    \/ Step
    \/ Interrupts

Spec == Init /\ [][Next]_vars

\* the steps of the calling thread alone: the thread is never suspended for
\* ever, so a step that stays possible is taken; a container's command ending
\* is not among them (an API server runs until it is stopped)
Thread ==
    \/ Returned
    \/ CachedImageExists
    \/ Dispatch
    \/ EnsureBase
    \/ Resolve
    \/ Launch
    \/ StreamEnd
    \/ Wait
    \/ Remove
    \/ PrepBase
    \/ PrepLaunch
    \/ PrepStreamEnd
    \/ PrepWait
    \/ PrepFail
    \/ PrepCommit

\* the same manager with a calling thread that keeps running
SpecLive == Init /\ [][Next]_vars /\ WF_vars(Thread)

\* one manager starting from an empty image store, calls interleaved with
\* edits of the project tree, no interrupt
InitCache ==
    /\ fs = InitTree
    /\ images = EmptyTree
    /\ containers = EmptyTree
    /\ pc = "idle"
    /\ args = NoArgs
    /\ cur = 0
    /\ code = -1
    /\ imageRef = NoRef
    /\ build = NoRef
    /\ pending = ""
    /\ outcome = NoOutcome
    /\ trace = <<>>
    /\ mine = {}
    /\ built = {}
    /\ stale = FALSE
    /\ prepares = 0
    /\ launches = <<>>
    /\ fresh = FALSE
    /\ warm = FALSE
    /\ hashed = <<>>
    /\ config = DefaultConfig
    /\ proc = NoProc
    /\ keylog = <<>>
    /\ unreadable = {}
    /\ version = DockerVersion
    /\ _is_podman = DetectPodman(DockerVersion)
    /\ history = NoHistory
    /\ peer = NoPeer
    /\ request = NoRequest
    /\ zip_service = NoUnzip
    /\ http_service = NoHttp
    /\ host = LinuxHost
    /\ calls = MaxCacheCalls
    /\ faults = MaxFaults
    /\ interrupts = 0
    /\ edits = MaxEdits

NextCache ==
    \/ \E p \in AllPaths, c \in Contents : EditSource(p, c)
    \/ \E uc, rb, sl \in BOOLEAN : CallRunScanner(uc, rb, sl)
    \/ CallPrepare
    \/ CallCachedImageExists
    \/ Step

SpecCache == InitCache /\ [][NextCache]_vars

\* ------------------------------------------------------------ construction
\* ContainerManager(project_root): self._is_podman = False, then the version
\* query inside try / except Exception
Construct(v) ==
    /\ pc = "new"
    /\ pc' = "idle"
    /\ version' = v
    /\ _is_podman' = DetectPodman(v)
    /\ UNCHANGED <<fs, images, containers, args, cur, code, imageRef, build, pending,
                   outcome, trace, mine, built, stale, prepares, launches, fresh, warm, hashed,
                   config, proc, keylog, unreadable, history, host, peer, Services, calls, faults,
                   interrupts,
                   edits>>

\* a manager about to be constructed against any engine, with the default
\* configuration or one without a shared-memory size
InitEngine ==
    /\ fs = InitTree
    /\ images \in InitStores
    /\ containers = EmptyTree
    /\ pc = "new"
    /\ args = NoArgs
    /\ cur = 0
    /\ code = -1
    /\ imageRef = NoRef
    /\ build = NoRef
    /\ pending = ""
    /\ outcome = NoOutcome
    /\ trace = <<>>
    /\ mine = {}
    /\ built = {}
    /\ stale = FALSE
    /\ prepares = 0
    /\ launches = <<>>
    /\ fresh = FALSE
    /\ warm = FALSE
    /\ hashed = <<>>
    /\ config \in {DefaultConfig, [DefaultConfig EXCEPT !.shm_size = ""]}
    /\ proc = NoProc
    /\ keylog = <<>>
    /\ unreadable = {}
    /\ version = VersionError
    /\ _is_podman = FALSE
    /\ history = NoHistory
    /\ peer = NoPeer
    /\ request = NoRequest
    /\ zip_service = NoUnzip
    /\ http_service = NoHttp
    /\ host \in Hosts
    /\ calls = MaxCalls
    /\ faults = MaxFaults
    /\ interrupts = 0
    /\ edits = 0

NextEngine ==
    \/ \E v \in EngineVersions : Construct(v)
    \/ \E uc, rb, sl \in BOOLEAN : CallRunScanner(uc, rb, sl)
    \/ \E hp \in HostPorts, uc, rb, sl \in BOOLEAN : CallRunApiServer(hp, uc, rb, sl)
    \/ CallPrepare
    \/ CallCachedImageExists
    \/ Step

\* construction against any engine, then one call
SpecEngine == InitEngine /\ [][NextEngine]_vars

\* ------------------------------------------------- the two dispatchers
\* a manager whose calls are recorded: run_scanner, then run_api_server
InitPair ==
    /\ fs = InitTree
    /\ images \in InitStores
    /\ containers = EmptyTree
    /\ pc = "idle"
    /\ args = NoArgs
    /\ cur = 0
    /\ code = -1
    /\ imageRef = NoRef
    /\ build = NoRef
    /\ pending = ""
    /\ outcome = NoOutcome
    /\ trace = <<>>
    /\ mine = {}
    /\ built = {}
    /\ stale = FALSE
    /\ prepares = 0
    /\ launches = <<>>
    /\ fresh = FALSE
    /\ warm = FALSE
    /\ hashed = <<>>
    /\ config = DefaultConfig
    /\ proc = NoProc
    /\ keylog = <<>>
    /\ unreadable = {}
    /\ version = DockerVersion
    /\ _is_podman = DetectPodman(DockerVersion)
    /\ history = [NoHistory EXCEPT !.on = TRUE]
    /\ host = LinuxHost
    /\ peer = NoPeer
    /\ request = NoRequest
    /\ zip_service = NoUnzip
    /\ http_service = NoHttp
    /\ calls = 2
    /\ faults = MaxPairFaults
    /\ interrupts = 2
    /\ edits = 0

NextPair ==
    \/ \E uc, rb, sl \in BOOLEAN : history.runs = <<>> /\ CallRunScanner(uc, rb, sl)
    \/ \E hp \in HostPorts, uc, rb, sl \in BOOLEAN :
          history.runs # <<>> /\ CallRunApiServer(hp, uc, rb, sl)
    \/ \E id \in DOMAIN containers, c \in ExitCodes : ContainerExit(id, c)
    \/ Returned
    \/ Dispatch
    \/ EnsureBase
    \/ Resolve
    \/ Launch
    \/ StreamEnd
    \/ StreamError
    \/ Wait
    \/ Remove
    \/ PrepBase
    \/ PrepLaunch
    \/ PrepStreamEnd
    \/ PrepStreamError
    \/ PrepWait
    \/ PrepFail
    \/ PrepCommit
    \/ Interrupts

\* run_scanner followed by run_api_server on the same manager
SpecPair == InitPair /\ [][NextPair]_vars

\* ------------------------------------------------------- concurrent builds
\* the trees the second manager builds, both different from InitTree: one with
\* another byte in src/a.py, one with InitTree's bytes laid out over other files
PeerTrees ==
    {OtherTree,
     [p \in {Manifest, "src/a.py", "src/b.py"} |->
        CASE p = Manifest -> <<>> [] p = "src/a.py" -> <<1>> [] p = "src/b.py" -> <<0>>]}

\* the second manager's prepare_cached_image up to client.containers.run:
\* ensure_base_image, the reference from its own tree, the provisioning container
PeerLaunch ==
    /\ peer.pc = "launch"
    /\ LET c == NewContainer("prov", DEFAULT_BASE_IMAGE, ProvCommand, RootUser, ProvEnv, {})
       IN /\ containers' = Put(containers, FreeId, c)
          /\ peer' = [peer EXCEPT !.pc = "commit", !.build = _cached_image_ref(peer.tree),
                                  !.cur = FreeId]
    /\ images' = Put(images, DEFAULT_BASE_IMAGE, BaseImage)
    /\ UNCHANGED <<fs, pc, args, cur, code, imageRef, build, pending, outcome, trace, mine,
                   built, stale, prepares, launches, fresh, warm, hashed, config, proc, keylog,
                   unreadable, version, _is_podman, history, host, Services, calls, faults, interrupts,
                   edits>>

\* its container has installed its tree and exited with status 0; wait, then
\* container.commit(repository=repo, tag=tag)
PeerCommit ==
    /\ peer.pc = "commit"
    /\ containers' = [containers EXCEPT ![peer.cur].state = "exited", ![peer.cur].code = 0,
                                        ![peer.cur].tree = peer.tree]
    /\ images' = Put(images, peer.build, CachedImage(peer.tree))
    /\ peer' = [peer EXCEPT !.pc = "remove"]
    /\ UNCHANGED <<fs, pc, args, cur, code, imageRef, build, pending, outcome, trace, mine,
                   built, stale, prepares, launches, fresh, warm, hashed, config, proc, keylog,
                   unreadable, version, _is_podman, history, host, Services, calls, faults, interrupts,
                   edits>>

\* container.remove(); return full
PeerRemove ==
    /\ peer.pc = "remove"
    /\ containers' = Drop(containers, peer.cur)
    /\ peer' = [peer EXCEPT !.pc = "done"]
    /\ UNCHANGED <<fs, images, pc, args, cur, code, imageRef, build, pending, outcome, trace,
                   mine, built, stale, prepares, launches, fresh, warm, hashed, config, proc,
                   keylog, unreadable, version, _is_podman, history, host, Services, calls, faults,
                   interrupts, edits>>

\* two managers on one engine, each about to build its own tree
InitBuilds ==
    /\ fs = InitTree
    /\ images \in {EmptyTree, [r \in {DEFAULT_BASE_IMAGE} |-> BaseImage]}
    /\ containers = EmptyTree
    /\ pc = "idle"
    /\ args = NoArgs
    /\ cur = 0
    /\ code = -1
    /\ imageRef = NoRef
    /\ build = NoRef
    /\ pending = ""
    /\ outcome = NoOutcome
    /\ trace = <<>>
    /\ mine = {}
    /\ built = {}
    /\ stale = FALSE
    /\ prepares = 0
    /\ launches = <<>>
    /\ fresh = FALSE
    /\ warm = FALSE
    /\ hashed = <<>>
    /\ config = DefaultConfig
    /\ proc = NoProc
    /\ keylog = <<>>
    /\ unreadable = {}
    /\ version = DockerVersion
    /\ _is_podman = DetectPodman(DockerVersion)
    /\ history = NoHistory
    /\ host = LinuxHost
    /\ peer \in {[NoPeer EXCEPT !.pc = "launch", !.tree = t] : t \in PeerTrees}
    /\ request = NoRequest
    /\ zip_service = NoUnzip
    /\ http_service = NoHttp
    /\ calls = MaxCalls
    /\ faults = MaxFaults
    /\ interrupts = 0
    /\ edits = 0

NextBuilds ==
    \/ CallPrepare
    \/ \E id \in DOMAIN containers, c \in ExitCodes : ContainerExit(id, c)
    \/ Returned
    \/ PrepBase
    \/ PrepLaunch
    \/ PrepStreamEnd
    \/ PrepStreamError
    \/ PrepWait
    \/ PrepFail
    \/ PrepCommit
    \/ PeerLaunch
    \/ PeerCommit
    \/ PeerRemove

\* prepare_cached_image in one manager while a second manager builds
SpecBuilds == InitBuilds /\ [][NextBuilds]_vars

\* ---------------------------------------------- edits during a dispatch
\* a file of the project tree is rewritten while a call is in progress: the
\* tree is the user's working copy and nothing locks it
ConcurrentEdit(p, c) ==
    /\ pc \notin {"idle", "done"}
    /\ edits > 0
    /\ p \in DOMAIN fs
    /\ c # fs[p]
    /\ fs' = [fs EXCEPT ![p] = c]
    /\ edits' = edits - 1
    /\ LET changed == HashedStream(fs') # HashedStream(fs)
       IN /\ stale' = (stale \/ (built # {} /\ changed))
          /\ fresh' = (fresh /\ ~changed)
    /\ UNCHANGED <<images, containers, pc, args, cur, code, imageRef, build, pending, config, proc,
                   keylog, unreadable, version, _is_podman, history, host, peer, Services,
                   outcome, trace, mine, built, prepares, launches, warm, hashed, calls,
                   faults, interrupts>>

InitRace ==
    /\ fs = InitTree
    /\ images \in InitStores
    /\ containers = EmptyTree
    /\ pc = "idle"
    /\ args = NoArgs
    /\ cur = 0
    /\ code = -1
    /\ imageRef = NoRef
    /\ build = NoRef
    /\ pending = ""
    /\ outcome = NoOutcome
    /\ trace = <<>>
    /\ mine = {}
    /\ built = {}
    /\ stale = FALSE
    /\ prepares = 0
    /\ launches = <<>>
    /\ fresh = FALSE
    /\ warm = FALSE
    /\ hashed = <<>>
    /\ config = DefaultConfig
    /\ proc = NoProc
    /\ keylog = <<>>
    /\ unreadable = {}
    /\ version = DockerVersion
    /\ _is_podman = DetectPodman(DockerVersion)
    /\ history = NoHistory
    /\ host = LinuxHost
    /\ peer = NoPeer
    /\ request = NoRequest
    /\ zip_service = NoUnzip
    /\ http_service = NoHttp
    /\ calls = 1
    /\ faults = 1
    /\ interrupts = 0
    /\ edits = MaxRaceEdits

NextRace ==
    \/ \E p \in AllPaths, c \in Contents : ConcurrentEdit(p, c)
    \/ \E rb, sl \in BOOLEAN : CallRunScanner(TRUE, rb, sl)
    \/ \E hp \in HostPorts, rb, sl \in BOOLEAN : CallRunApiServer(hp, TRUE, rb, sl)
    \/ \E id \in DOMAIN containers, c \in ExitCodes : ContainerExit(id, c)
    \/ Returned
    \/ Dispatch
    \/ Resolve
    \/ Launch
    \/ StreamEnd
    \/ StreamError
    \/ Wait
    \/ Remove
    \/ PrepBase
    \/ PrepLaunch
    \/ PrepStreamEnd
    \/ PrepStreamError
    \/ PrepWait
    \/ PrepFail
    \/ PrepCommit

\* one cached dispatch while the project tree is being edited
SpecRace == InitRace /\ [][NextRace]_vars

\* ------------------------------------------------------- the key function
\* project trees: any of the files present, with any content
KeyTrees == UNION {[D -> Contents] : D \in SUBSET AllPaths}

\* one call of _compute_cache_key on the tree as it is, the file system
\* yielding the files of src/ in some order
ComputeKey ==
    /\ pc = "idle"
    /\ Len(keylog) < MaxKeyCalls
    /\ \E listing \in Listings(fs) :
          keylog' = Append(keylog, [tree |-> fs, listing |-> listing,
                                    key |-> KeyFromListing(fs, listing)])
    /\ UNCHANGED <<fs, images, containers, pc, args, cur, code, imageRef, build, pending,
                   outcome, trace, mine, built, stale, prepares, launches, fresh, warm,
                   hashed, config, proc, unreadable, version, _is_podman, history, host, peer, Services,
                   calls, faults, interrupts, edits>>

InitKey ==
    /\ fs \in KeyTrees
    /\ images = EmptyTree
    /\ containers = EmptyTree
    /\ pc = "idle"
    /\ args = NoArgs
    /\ cur = 0
    /\ code = -1
    /\ imageRef = NoRef
    /\ build = NoRef
    /\ pending = ""
    /\ outcome = NoOutcome
    /\ trace = <<>>
    /\ mine = {}
    /\ built = {}
    /\ stale = FALSE
    /\ prepares = 0
    /\ launches = <<>>
    /\ fresh = FALSE
    /\ warm = FALSE
    /\ hashed = <<>>
    /\ config = DefaultConfig
    /\ proc = NoProc
    /\ keylog = <<>>
    /\ unreadable = {}
    /\ version = DockerVersion
    /\ _is_podman = DetectPodman(DockerVersion)
    /\ history = NoHistory
    /\ peer = NoPeer
    /\ request = NoRequest
    /\ zip_service = NoUnzip
    /\ http_service = NoHttp
    /\ host = LinuxHost
    /\ calls = 0
    /\ faults = 0
    /\ interrupts = 0
    /\ edits = MaxKeyEdits

NextKey ==
    \/ \E p \in AllPaths, c \in Contents : EditSource(p, c)
    \/ ComputeKey

\* _compute_cache_key called again and again on a tree that is edited in between
SpecKey == InitKey /\ [][NextKey]_vars

\* ------------------------------------------------------- the task processes
\* every variable of the manager and its engine
Manager == <<fs, images, containers, pc, args, cur, code, imageRef, build, pending, outcome,
             trace, mine, built, stale, prepares, launches, fresh, warm, hashed, config,
             keylog, unreadable, version, _is_podman, history, host, peer, calls, faults, interrupts,
             edits>>

\* values of A11Y_SCANNER_IN_CONTAINER a process can find: unset, "1", another
Sentinels == {EnvVar(FALSE, ""), EnvVar(TRUE, IN_CONTAINER_VALUE), EnvVar(TRUE, "0")}
\* values of A11Y_BASE_URL: unset (default ""), blank, a site
BaseUrls == {"", " ", "https://example.com"}
\* str.strip() on those values
Strip(u) == IF u = " " THEN "" ELSE u
\* data/unzip (for cmd_scan: --zip-path): no archive, a readable one, a broken one
ZipStates == {"missing", "ok", "corrupt"}

\* a process at the start of scanner.main (python -m scanner.main)
MainProcs ==
    {[NoProc EXCEPT !.entry = "main", !.pc = "guard", !.sentinel = s, !.zip = z, !.html = h] :
        s \in Sentinels, z \in ZipStates, h \in {0, 1}}
\* a process at the start of scan_live_site.main
LiveProcs ==
    {[NoProc EXCEPT !.entry = "live", !.pc = "guard", !.sentinel = s, !.base_url = u] :
        s \in Sentinels, u \in BaseUrls}
\* a process importing scanner.web.server as __main__
ServerProcs ==
    {[NoProc EXCEPT !.entry = "server", !.pc = "import", !.sentinel = s] : s \in Sentinels}
\* a host process in scanner.cli.cmd_scan; zip "none" is no --zip-path
CliProcs ==
    {[NoProc EXCEPT !.entry = "cli", !.pc = "cmd_scan", !.zip = z] :
        z \in {"none", "missing", "ok"}}

\* os.environ.get(IN_CONTAINER_ENV) != IN_CONTAINER_VALUE
OutsideContainer(v) == ~(v.set /\ v.val = IN_CONTAINER_VALUE)

\* sys.exit(c), after a message on stderr or the error log when d
Exit(c, d) == [proc EXCEPT !.pc = "exited", !.exit = c, !.diag = d]
Did(p, step) == [p EXCEPT !.steps = Append(p.steps, step)]

\* _assert_docker_context() at the top of scanner.main.main and scan_live_site.main
AssertDockerContext ==
    /\ proc.pc = "guard"
    /\ proc' = IF OutsideContainer(proc.sentinel) THEN Exit(2, TRUE)
               ELSE [proc EXCEPT !.pc = IF proc.entry = "main" THEN "unzip" ELSE "base_url"]
    /\ UNCHANGED <<Manager, Services>>

\* Pipeline.run step 1 inside scanner.main.main: ZipService.run(); a missing
\* archive is FileNotFoundError, a broken one RuntimeError, both sys.exit(1)
MainUnzip ==
    /\ proc.pc = "unzip"
    /\ proc' = IF proc.zip = "ok" THEN [Did(proc, "unzip") EXCEPT !.pc = "discover"]
               ELSE Exit(1, TRUE)
    /\ UNCHANGED <<Manager, Services>>

\* Pipeline.run step 2: no HTML file found returns [] and the report is built
MainDiscover ==
    /\ proc.pc = "discover"
    /\ proc' = [proc EXCEPT !.pc = IF proc.html = 0 THEN "report" ELSE "http_start"]
    /\ UNCHANGED <<Manager, Services>>

\* Pipeline.run step 3: HttpService.start; an exception ends in sys.exit(1)
MainHttpStart ==
    /\ proc.pc = "http_start"
    /\ \/ proc' = [Did(proc, "http_start") EXCEPT !.pc = "scan"]
       \/ proc' = Exit(1, TRUE)
    /\ UNCHANGED <<Manager, Services>>

\* Pipeline.run steps 4 and 5: each file scanned, a RuntimeError of one scan
\* logged and skipped, any other exception re-raised; the server is stopped
MainScan ==
    /\ proc.pc = "scan"
    /\ \/ proc' = [Did(Did(proc, "scan"), "http_stop") EXCEPT !.pc = "report"]
       \/ proc' = [Did(Did(proc, "scan_failed"), "http_stop") EXCEPT !.pc = "report"]
       \/ proc' = Did(Exit(1, TRUE), "http_stop")
    /\ UNCHANGED <<Manager, Services>>

\* build_report in its own try block: a failure is logged; sys.exit(0)
MainReport ==
    /\ proc.pc = "report" /\ proc.entry = "main"
    /\ \/ proc' = Did(Exit(0, FALSE), "report")
       \/ proc' = Exit(0, TRUE)
    /\ UNCHANGED <<Manager, Services>>

\* scan_live_site.main: if not BASE_URL: log.error, sys.exit(2); then the
\* result directories are made
LiveBaseUrl ==
    /\ proc.pc = "base_url"
    /\ proc' = IF Strip(proc.base_url) = "" THEN Exit(2, TRUE)
               ELSE [Did(proc, "mkdirs") EXCEPT !.pc = "scan_pages"]
    /\ UNCHANGED <<Manager, Services>>

\* scan_live_site.main: the pages are scanned, a failing page logged and
\* skipped; a failure to start the browser is an unexpected error, sys.exit(1)
LiveScan ==
    /\ proc.pc = "scan_pages"
    /\ \/ proc' = [Did(proc, "scan") EXCEPT !.pc = "report"]
       \/ proc' = [Did(proc, "scan_failed") EXCEPT !.pc = "report"]
       \/ proc' = Exit(1, TRUE)
    /\ UNCHANGED <<Manager, Services>>

\* scan_live_site.main: build_report inside the outer try; sys.exit(0) or (1)
LiveReport ==
    /\ proc.pc = "report" /\ proc.entry = "live"
    /\ \/ proc' = Did(Exit(0, FALSE), "report")
       \/ proc' = Exit(1, TRUE)
    /\ UNCHANGED <<Manager, Services>>

\* import of scanner.web.server: logging, Settings, the data directories are
\* made and mounted
ServerImport ==
    /\ proc.pc = "import"
    /\ proc' = [Did(proc, "mkdirs") EXCEPT !.pc = "run"]
    /\ UNCHANGED <<Manager, Services>>

\* scanner.web.server.run: uvicorn.run(app, host="0.0.0.0", port=8008)
ServerRun ==
    /\ proc.pc = "run"
    /\ proc' = [Did(proc, "http_server") EXCEPT !.pc = "serving"]
    /\ UNCHANGED <<Manager, Services>>

\* POST /api/scan/zip or /api/scan/url: _require_container() answers 400
\* outside a container, otherwise the scan is run
ServerRequest ==
    /\ proc.pc = "serving"
    /\ proc.requests < MaxRequests
    /\ proc' = IF OutsideContainer(proc.sentinel)
               THEN [proc EXCEPT !.requests = @ + 1, !.refused = @ + 1]
               ELSE [Did(proc, "scan") EXCEPT !.requests = @ + 1]
    /\ UNCHANGED <<Manager, Services>>

\* uvicorn.run returns after a termination signal and the process ends
ServerStop ==
    /\ proc.pc = "serving"
    /\ proc' = Exit(0, FALSE)
    /\ UNCHANGED <<Manager, Services>>

\* scanner.cli.cmd_scan: a --zip-path that does not exist returns 2; otherwise
\* the archive is copied and the result of run_scanner is returned, an
\* exception of run_scanner ending the interpreter with status 1
CmdScan ==
    /\ proc.pc = "cmd_scan"
    /\ \/ /\ proc.zip = "missing"
          /\ proc' = Exit(2, TRUE)
       \/ /\ proc.zip # "missing"
          /\ \E c \in ExitCodes \cup StopExitCodes :
                proc' = Did(Exit(c, FALSE), "run_scanner")
       \/ /\ proc.zip # "missing"
          /\ proc' = Did(Exit(1, TRUE), "run_scanner")
    /\ UNCHANGED <<Manager, Services>>

InitTask ==
    /\ fs = InitTree
    /\ images = EmptyTree
    /\ containers = EmptyTree
    /\ pc = "idle"
    /\ args = NoArgs
    /\ cur = 0
    /\ code = -1
    /\ imageRef = NoRef
    /\ build = NoRef
    /\ pending = ""
    /\ outcome = NoOutcome
    /\ trace = <<>>
    /\ mine = {}
    /\ built = {}
    /\ stale = FALSE
    /\ prepares = 0
    /\ launches = <<>>
    /\ fresh = FALSE
    /\ warm = FALSE
    /\ hashed = <<>>
    /\ config = DefaultConfig
    /\ proc \in MainProcs \cup LiveProcs \cup ServerProcs \cup CliProcs
    /\ keylog = <<>>
    /\ unreadable = {}
    /\ version = DockerVersion
    /\ _is_podman = DetectPodman(DockerVersion)
    /\ history = NoHistory
    /\ peer = NoPeer
    /\ request = NoRequest
    /\ zip_service = NoUnzip
    /\ http_service = NoHttp
    /\ host = LinuxHost
    /\ calls = 0
    /\ faults = 0
    /\ interrupts = 0
    /\ edits = 0

NextTask ==
    \/ AssertDockerContext
    \/ MainUnzip
    \/ MainDiscover
    \/ MainHttpStart
    \/ MainScan
    \/ MainReport
    \/ LiveBaseUrl
    \/ LiveScan
    \/ LiveReport
    \/ ServerImport
    \/ ServerRun
    \/ ServerRequest
    \/ ServerStop
    \/ CmdScan

\* one process from one entry point, from its start to its exit
SpecTask == InitTask /\ [][NextTask]_vars

\* ------------------------------------------------------------ Pipeline.run
\* a process entering Pipeline.run: the archive, and how many HTML files
\* discover_html_files() will return
PipelineProcs ==
    {[NoProc EXCEPT !.entry = "pipeline", !.pc = "zip_run", !.zip = z, !.html = h] :
        z \in ZipStates, h \in 0..MaxHtml}

\* an exception leaves the try block: the except clauses log and re-raise
PipelineRaise(p) == [p EXCEPT !.pc = "finally", !.exit = 1, !.diag = TRUE]
\* a return statement inside the try block
PipelineReturn(p) == [p EXCEPT !.pc = "finally", !.exit = 0]

\* self.zip_service.run(): FileNotFoundError without the archive, another
\* error on a broken one
PipelineUnzip ==
    /\ proc.pc = "zip_run"
    /\ proc' = IF proc.zip = "ok" THEN [Did(proc, "zip_run") EXCEPT !.pc = "discover_html_files"]
               ELSE PipelineRaise(Did(proc, "zip_run"))
    /\ UNCHANGED <<Manager, Services>>

\* an early return that does not pass through the finally clause
PipelineDiscover_ReturnSkipsFinally ==
    /\ proc.pc = "discover_html_files"
    /\ \/ proc' = IF proc.html = 0
                  THEN [Did(proc, "discover_html_files") EXCEPT !.pc = "exited", !.exit = 0]
                  ELSE [Did(proc, "discover_html_files") EXCEPT !.pc = "start"]
       \/ proc' = PipelineRaise(Did(proc, "discover_html_files"))
    /\ UNCHANGED <<Manager, Services>>

\* html_files = self.html_service.discover_html_files(); if not html_files: return []
PipelineDiscover ==
    /\ proc.pc = "discover_html_files"
    /\ \/ proc' = IF proc.html = 0
                  THEN PipelineReturn(Did(proc, "discover_html_files"))
                  ELSE [Did(proc, "discover_html_files") EXCEPT !.pc = "start"]
       \/ proc' = PipelineRaise(Did(proc, "discover_html_files"))
    /\ UNCHANGED <<Manager, Services>>

\* self.http_service.start(directory=self.settings.scan_dir)
PipelineStart ==
    /\ proc.pc = "start"
    /\ \/ proc' = [Did(proc, "start") EXCEPT !.pc = "scan_url"]
       \/ proc' = PipelineRaise(Did(proc, "start"))
    /\ UNCHANGED <<Manager, Services>>

\* for file_info in html_files: self.axe_service.scan_url(url_to_scan, report_path);
\* requests counts the files taken, refused the RuntimeErrors logged
PipelineScanUrl ==
    /\ proc.pc = "scan_url"
    /\ proc.requests < proc.html
    /\ \/ proc' = [Did(proc, "scan_url") EXCEPT !.requests = @ + 1]
       \/ proc' = [Did(proc, "scan_url") EXCEPT !.requests = @ + 1, !.refused = @ + 1]
       \/ proc' = PipelineRaise([Did(proc, "scan_url") EXCEPT !.requests = @ + 1])
    /\ UNCHANGED <<Manager, Services>>

\* the loop is exhausted: return all_results
PipelineLoopEnd ==
    /\ proc.pc = "scan_url"
    /\ proc.requests = proc.html
    /\ proc' = PipelineReturn(proc)
    /\ UNCHANGED <<Manager, Services>>

\* finally: self.http_service.stop(); its own error replaces the pending
\* return or exception
PipelineFinally ==
    /\ proc.pc = "finally"
    /\ \/ proc' = [Did(proc, "stop") EXCEPT !.pc = "exited"]
       \/ proc' = [Did(proc, "stop") EXCEPT !.pc = "exited", !.exit = 1, !.diag = TRUE]
    /\ UNCHANGED <<Manager, Services>>

InitPipeline ==
    /\ fs = InitTree
    /\ images = EmptyTree
    /\ containers = EmptyTree
    /\ pc = "idle"
    /\ args = NoArgs
    /\ cur = 0
    /\ code = -1
    /\ imageRef = NoRef
    /\ build = NoRef
    /\ pending = ""
    /\ outcome = NoOutcome
    /\ trace = <<>>
    /\ mine = {}
    /\ built = {}
    /\ stale = FALSE
    /\ prepares = 0
    /\ launches = <<>>
    /\ fresh = FALSE
    /\ warm = FALSE
    /\ hashed = <<>>
    /\ config = DefaultConfig
    /\ proc \in PipelineProcs
    /\ keylog = <<>>
    /\ unreadable = {}
    /\ version = DockerVersion
    /\ _is_podman = DetectPodman(DockerVersion)
    /\ history = NoHistory
    /\ peer = NoPeer
    /\ request = NoRequest
    /\ zip_service = NoUnzip
    /\ http_service = NoHttp
    /\ host = LinuxHost
    /\ calls = 0
    /\ faults = 0
    /\ interrupts = 0
    /\ edits = 0

NextPipeline ==
    \/ PipelineUnzip
    \/ PipelineDiscover
    \/ PipelineStart
    \/ PipelineScanUrl
    \/ PipelineLoopEnd
    \/ PipelineFinally

\* one call of Pipeline.run, from its entry to its return or exception
SpecPipeline == InitPipeline /\ [][NextPipeline]_vars

\* ------------------------------------------------------- the API handlers
\* a POST the server process receives: the endpoint, the sentinel in the
\* process's environment, whether the parameters the handler declares can be
\* built from the request (a file part; a JSON list of 1..50 http(s) URLs),
\* how the credentials compare with A11Y_API_TOKEN, the upload, the hosts
Requests ==
    {[NoRequest EXCEPT !.pc = "validate", !.endpoint = e, !.sentinel = s, !.valid = v,
                       !.auth = a, !.upload = u, !.urls = h] :
        e \in {"/api/scan/zip", "/api/scan/url"}, s \in Sentinels, v \in BOOLEAN,
        a \in {"open", "match", "mismatch"},
        u \in {"ok", "mime", "extension", "large", "empty"}, h \in {"public", "private"}}

\* raise HTTPException(status_code, detail), or the JSON response
Respond(r, status, detail) == [r EXCEPT !.pc = "responded", !.status = status, !.detail = detail]
Stepped(r, step) == [r EXCEPT !.steps = Append(r.steps, step)]

\* the framework builds `file: UploadFile = File(...)` / `payload: UrlsIn`
\* (with validate_urls) before it calls the handler: 422 when it cannot
ApiValidate ==
    /\ request.pc = "validate"
    /\ request' = IF request.valid
                  THEN [Stepped(request, "validate") EXCEPT !.pc = "_require_container"]
                  ELSE Respond(Stepped(request, "validate"), 422, "validation error")
    /\ UNCHANGED <<Manager, proc, zip_service, http_service>>

\* a guard that lets every request through
_require_container_Open(v) == FALSE

\* _require_container(): whether it raises
_require_container(v) == OutsideContainer(v)

\* the first statement of scan_zip and scan_url
ApiRequireContainer ==
    /\ request.pc = "_require_container"
    /\ request' = IF _require_container(request.sentinel)
                  THEN Respond(request, 400, "Must run inside container")
                  ELSE [request EXCEPT !.pc = "_require_auth"]
    /\ UNCHANGED <<Manager, proc, zip_service, http_service>>

\* _require_auth(request): 401 when a token is configured and the key differs
ApiRequireAuth ==
    /\ request.pc = "_require_auth"
    /\ request' = IF request.auth = "mismatch"
                  THEN Respond(Stepped(request, "auth"), 401, "Unauthorized")
                  ELSE [Stepped(request, "auth") EXCEPT
                           !.pc = IF request.endpoint = "/api/scan/zip" THEN "upload" ELSE "urls"]
    /\ UNCHANGED <<Manager, proc, zip_service, http_service>>

\* scan_zip: content type, extension, await file.read(), size limits
ApiCheckUpload ==
    /\ request.pc = "upload"
    /\ request' =
          LET r == Stepped(request, "upload")
          IN CASE request.upload = "mime" -> Respond(r, 400, "Invalid file type")
               [] request.upload = "extension" -> Respond(r, 400, "File must have a .zip extension")
               [] request.upload = "large" -> Respond(Stepped(r, "read"), 413, "File too large")
               [] request.upload = "empty" -> Respond(Stepped(r, "read"), 400, "Uploaded file is empty")
               [] OTHER -> [Stepped(r, "read") EXCEPT !.pc = "clean"]
    /\ UNCHANGED <<Manager, proc, zip_service, http_service>>

\* scan_url: _validate_public_http_url for every URL
ApiCheckUrls ==
    /\ request.pc = "urls"
    /\ request' = IF request.urls = "private"
                  THEN Respond(Stepped(request, "resolve"), 400, "Blocked non-public address")
                  ELSE [Stepped(request, "resolve") EXCEPT !.pc = "clean"]
    /\ UNCHANGED <<Manager, proc, zip_service, http_service>>

\* _clean_dir(settings.scan_dir), _clean_dir(settings.results_dir)
ApiClean ==
    /\ request.pc = "clean"
    /\ request' = [Stepped(request, "clean") EXCEPT
                      !.pc = IF request.endpoint = "/api/scan/zip" THEN "write" ELSE "scan"]
    /\ UNCHANGED <<Manager, proc, zip_service, http_service>>

\* target.write_bytes(content)
ApiWrite ==
    /\ request.pc = "write"
    /\ \/ request' = [Stepped(request, "write") EXCEPT !.pc = "scan"]
       \/ request' = Respond(Stepped(request, "write"), 500, "Failed to save uploaded file")
    /\ UNCHANGED <<Manager, proc, zip_service, http_service>>

\* pipeline.run() / the scan_url loop in one browser
ApiScan ==
    /\ request.pc = "scan"
    /\ \/ request' = [Stepped(request, "scan") EXCEPT !.pc = "report"]
       \/ request' = Respond(Stepped(request, "scan"), 500, "Scan failed")
       \/ /\ request.endpoint = "/api/scan/zip"
          /\ request' = Respond(Stepped(request, "scan"), 400, "Invalid ZIP file")
    /\ UNCHANGED <<Manager, proc, zip_service, http_service>>

\* build_report(...) and the JSON answer
ApiReport ==
    /\ request.pc = "report"
    /\ \/ request' = Respond(Stepped(request, "report"), 200, "success")
       \/ request' = Respond(Stepped(request, "report"), 500, "Failed to generate report")
    /\ UNCHANGED <<Manager, proc, zip_service, http_service>>

InitApi ==
    /\ fs = InitTree
    /\ images = EmptyTree
    /\ containers = EmptyTree
    /\ pc = "idle"
    /\ args = NoArgs
    /\ cur = 0
    /\ code = -1
    /\ imageRef = NoRef
    /\ build = NoRef
    /\ pending = ""
    /\ outcome = NoOutcome
    /\ trace = <<>>
    /\ mine = {}
    /\ built = {}
    /\ stale = FALSE
    /\ prepares = 0
    /\ launches = <<>>
    /\ fresh = FALSE
    /\ warm = FALSE
    /\ hashed = <<>>
    /\ config = DefaultConfig
    /\ proc = NoProc
    /\ keylog = <<>>
    /\ unreadable = {}
    /\ version = DockerVersion
    /\ _is_podman = DetectPodman(DockerVersion)
    /\ history = NoHistory
    /\ peer = NoPeer
    /\ request \in Requests
    /\ zip_service = NoUnzip
    /\ http_service = NoHttp
    /\ host = LinuxHost
    /\ calls = 0
    /\ faults = 0
    /\ interrupts = 0
    /\ edits = 0

NextApi ==
    \/ ApiValidate
    \/ ApiRequireContainer
    \/ ApiRequireAuth
    \/ ApiCheckUpload
    \/ ApiCheckUrls
    \/ ApiClean
    \/ ApiWrite
    \/ ApiScan
    \/ ApiReport

\* one POST to /api/scan/zip or /api/scan/url, from its arrival to the response
SpecApi == InitApi /\ [][NextApi]_vars

\* ---------------------------------------------------------- ZipService.unzip
\* MAX_UNCOMPRESSED = 500 * 1024 * 1024
MAX_UNCOMPRESSED == 500 * 1024 * 1024
\* file sizes the archive's directory declares: a small file, 300 MB
FileSizes == {1, 300 * 1024 * 1024}

\* a member name: absolute or not, and its components (Path(name).parts)
Name(abs, parts) == [abs |-> abs, parts |-> parts]
\* names of members: two plain ones, one through ".", an absolute one, one
\* that starts with "..", one that climbs out after a directory, and one
\* below a name that may be a symbolic link in the destination
MemberNames ==
    {Name(FALSE, <<"index.html">>), Name(FALSE, <<"css", "a.css">>),
     Name(FALSE, <<".", "index.html">>), Name(TRUE, <<"etc", "x">>),
     Name(FALSE, <<"..", "x">>), Name(FALSE, <<"css", "..", "..", "x">>),
     Name(FALSE, <<"link", "x">>)}
\* archive.infolist(): files, and the directory entry "css/"
Members ==
    {[filename |-> n, file_size |-> z, is_dir |-> FALSE] : n \in MemberNames, z \in FileSizes}
        \cup {[filename |-> Name(FALSE, <<"css">>), file_size |-> 0, is_dir |-> TRUE]}
RECURSIVE ArchivesOf(_)
ArchivesOf(n) ==
    IF n = 0 THEN {<<>>}
    ELSE ArchivesOf(n - 1) \cup {Append(a, m) : a \in {b \in ArchivesOf(n - 1) : Len(b) = n - 1},
                                                m \in Members}
Archives == ArchivesOf(MaxMembers)

\* a call of unzip(zip_path, destination): the archive and the symbolic links
\* present in the destination, each leading out of it
Unzips ==
    {[NoUnzip EXCEPT !.pc = "open", !.archive = a, !.links = l] :
        a \in Archives, l \in {{}, {"link"}}}

\* Path.resolve() of destination / name: the place in the file system, in or
\* out of the destination
RECURSIVE Walk(_, _, _, _, _)
Walk(parts, k, stack, out, links) ==
    IF k > Len(parts) THEN [outside |-> out, parts |-> stack]
    ELSE LET part == parts[k]
         IN CASE part = "." -> Walk(parts, k + 1, stack, out, links)
              [] part = ".." /\ stack # <<>> ->
                    Walk(parts, k + 1, SubSeq(stack, 1, Len(stack) - 1), out, links)
              [] part = ".." /\ stack = <<>> -> Walk(parts, k + 1, stack, TRUE, links)
              [] part \notin {".", ".."} /\ ~out /\ stack = <<>> /\ part \in links ->
                    Walk(parts, k + 1, <<part, "target">>, TRUE, links)
              [] OTHER -> Walk(parts, k + 1, Append(stack, part), out, links)
\* destination / name: an absolute name replaces the destination
resolve(name, links) == Walk(name.parts, 1, <<>>, name.abs, links)

\* _sanitize_archive_member: None for an absolute name and for a name with a
\* ".." component, else os.path.normpath(name)
None == [none |-> TRUE, name |-> Name(FALSE, <<>>)]
_sanitize_archive_member(name) ==
    IF name.abs THEN None
    ELSE IF \E k \in 1..Len(name.parts) : name.parts[k] = ".." THEN None
    ELSE LET normalized == Walk(name.parts, 1, <<>>, FALSE, {}).parts
         IN [none |-> FALSE, name |-> Name(FALSE, normalized)]

\* _is_safe_path(destination, target): commonpath of the resolved paths is the base
_is_safe_path(name, links) == ~resolve(name, links).outside

\* a loop that skips nothing
Skipped_Never(member, links) == FALSE

\* the two `continue` branches of the loop: the name is refused, or the
\* target resolves out of the destination
Skipped(member, links) ==
    LET safe_name == _sanitize_archive_member(member.filename)
    IN safe_name.none \/ ~_is_safe_path(safe_name.name, links)

\* target_path of a member that is extracted
target_path(member, links) ==
    LET safe_name == _sanitize_archive_member(member.filename)
    IN resolve(IF safe_name.none THEN member.filename ELSE safe_name.name, links)

\* sum(info.file_size for info in archive.infolist())
RECURSIVE total_uncompressed(_)
total_uncompressed(archive) ==
    IF archive = <<>> THEN 0
    ELSE archive[1].file_size + total_uncompressed(Tail(archive))

\* with ZipFile(zip_path) as archive: the size guard raises RuntimeError
\* inside try / except Exception, whose handler logs a warning and goes on
UnzipOpen ==
    /\ zip_service.pc = "open"
    /\ zip_service' = [zip_service EXCEPT
                          !.pc = "members", !.i = 1,
                          !.warned = total_uncompressed(zip_service.archive) > MAX_UNCOMPRESSED]
    /\ UNCHANGED <<Manager, proc, request, http_service>>

\* one turn of `for member in archive.infolist()`: skip, or mkdir / write_bytes,
\* which may fail with OSError (re-raised as RuntimeError)
UnzipMember ==
    /\ zip_service.pc = "members"
    /\ zip_service.i <= Len(zip_service.archive)
    /\ LET member == zip_service.archive[zip_service.i]
       IN IF Skipped(member, zip_service.links)
          THEN zip_service' = [zip_service EXCEPT !.i = @ + 1, !.skipped_count = @ + 1]
          ELSE \/ zip_service' = [zip_service EXCEPT
                                     !.i = @ + 1, !.extracted_count = @ + 1,
                                     !.written = @ \cup {target_path(member, zip_service.links)}]
               \/ zip_service' = [zip_service EXCEPT !.pc = "done", !.oserror = TRUE,
                                                     !.outcome = "RuntimeError"]
    /\ UNCHANGED <<Manager, proc, request, http_service>>

\* the loop is exhausted: the counts are logged and unzip returns
UnzipEnd ==
    /\ zip_service.pc = "members"
    /\ zip_service.i > Len(zip_service.archive)
    /\ zip_service' = [zip_service EXCEPT !.pc = "done", !.outcome = "return"]
    /\ UNCHANGED <<Manager, proc, request, http_service>>

InitUnzip ==
    /\ fs = InitTree
    /\ images = EmptyTree
    /\ containers = EmptyTree
    /\ pc = "idle"
    /\ args = NoArgs
    /\ cur = 0
    /\ code = -1
    /\ imageRef = NoRef
    /\ build = NoRef
    /\ pending = ""
    /\ outcome = NoOutcome
    /\ trace = <<>>
    /\ mine = {}
    /\ built = {}
    /\ stale = FALSE
    /\ prepares = 0
    /\ launches = <<>>
    /\ fresh = FALSE
    /\ warm = FALSE
    /\ hashed = <<>>
    /\ config = DefaultConfig
    /\ proc = NoProc
    /\ keylog = <<>>
    /\ unreadable = {}
    /\ version = DockerVersion
    /\ _is_podman = DetectPodman(DockerVersion)
    /\ history = NoHistory
    /\ peer = NoPeer
    /\ request = NoRequest
    /\ zip_service \in Unzips
    /\ http_service = NoHttp
    /\ host = LinuxHost
    /\ calls = 0
    /\ faults = 0
    /\ interrupts = 0
    /\ edits = 0

NextUnzip ==
    \/ UnzipOpen
    \/ UnzipMember
    \/ UnzipEnd

\* one call of ZipService.unzip on any archive
SpecUnzip == InitUnzip /\ [][NextUnzip]_vars

\* ---------------------------------------------------------------- HttpService
\* _server and _thread hold 0 for None, else the number of the object created;
\* base_url is <<>> for "", else the parts of f"http://{host}:{port}";
\* listening holds the server sockets that are open, alive the server threads
\* that run, log the calls made so far with the state each one found
Ports == 1..MaxPorts
HttpFields(h) ==
    [_server |-> h._server, _thread |-> h._thread, port |-> h.port, base_url |-> h.base_url,
     listening |-> h.listening, alive |-> h.alive]
HttpLogged(h, op, bind) ==
    Append(h.log, [op |-> op, bind |-> bind, before |-> HttpFields(h)])

\* a start that never finds the service running
AlreadyRunning_Never(h) == FALSE

\* if self._server: "Server is already running. Ignoring start request."
AlreadyRunning(h) == h._server # 0

\* HttpService(): no server, no thread, port 0, empty base_url
HttpInit == [NoHttp EXCEPT !.pc = "idle"]

\* start(directory): nothing on a running service; else a temporary socket
\* finds a free port, port and base_url are set, the server binds the port
\* (which another process may have taken meanwhile: OSError, no server), and
\* the thread running serve_forever is started
HttpStart ==
    /\ http_service.pc = "idle"
    /\ Len(http_service.log) < MaxHttpCalls
    /\ IF AlreadyRunning(http_service)
       THEN http_service' = [http_service EXCEPT !.log = HttpLogged(http_service, "start", "running")]
       ELSE \E p \in Ports \ {l.port : l \in http_service.listening} :
              \/ http_service' =
                    [http_service EXCEPT
                        !.port = p,
                        !.base_url = <<"http://", http_service.host, ":", p>>,
                        !._server = http_service.created + 1,
                        !._thread = http_service.created + 1,
                        !.created = @ + 1,
                        !.listening = @ \cup {[server |-> http_service.created + 1, port |-> p]},
                        !.alive = @ \cup {http_service.created + 1},
                        !.log = HttpLogged(http_service, "start", "ok")]
              \/ http_service' =
                    [http_service EXCEPT
                        !.port = p,
                        !.base_url = <<"http://", http_service.host, ":", p>>,
                        !.log = HttpLogged(http_service, "start", "inuse")]
    /\ UNCHANGED <<Manager, proc, request, zip_service>>

\* stop(): with a server and a thread, shutdown() ends serve_forever, join
\* waits for the thread and server_close() closes the socket; in every case
\* _server, _thread and base_url are reset
HttpStop ==
    /\ http_service.pc = "idle"
    /\ Len(http_service.log) < MaxHttpCalls
    /\ http_service' =
          [http_service EXCEPT
              !.alive = IF http_service._server # 0 /\ http_service._thread # 0
                        THEN @ \ {http_service._thread} ELSE @,
              !.listening = IF http_service._server # 0 /\ http_service._thread # 0
                            THEN {l \in @ : l.server # http_service._server} ELSE @,
              !._server = 0,
              !._thread = 0,
              !.base_url = <<>>,
              !.log = HttpLogged(http_service, "stop", "")]
    /\ UNCHANGED <<Manager, proc, request, zip_service>>

InitHttp ==
    /\ fs = InitTree
    /\ images = EmptyTree
    /\ containers = EmptyTree
    /\ pc = "idle"
    /\ args = NoArgs
    /\ cur = 0
    /\ code = -1
    /\ imageRef = NoRef
    /\ build = NoRef
    /\ pending = ""
    /\ outcome = NoOutcome
    /\ trace = <<>>
    /\ mine = {}
    /\ built = {}
    /\ stale = FALSE
    /\ prepares = 0
    /\ launches = <<>>
    /\ fresh = FALSE
    /\ warm = FALSE
    /\ hashed = <<>>
    /\ config = DefaultConfig
    /\ proc = NoProc
    /\ keylog = <<>>
    /\ unreadable = {}
    /\ version = DockerVersion
    /\ _is_podman = DetectPodman(DockerVersion)
    /\ history = NoHistory
    /\ peer = NoPeer
    /\ request = NoRequest
    /\ zip_service = NoUnzip
    /\ http_service = HttpInit
    /\ host = LinuxHost
    /\ calls = 0
    /\ faults = 0
    /\ interrupts = 0
    /\ edits = 0

NextHttp ==
    \/ HttpStart
    \/ HttpStop

\* any sequence of start and stop calls on one HttpService
SpecHttp == InitHttp /\ [][NextHttp]_vars

\* ------------------------------------------------------------------ claims
Has(who, op, res) ==
    \E i \in 1..Len(trace) : trace[i].who = who /\ trace[i].op = op /\ trace[i].res = res
LastEv == trace[Len(trace)]
Dispatched == args.op \in {"scan", "api"}
TaskLeft == \E id \in mine : id \in DOMAIN containers /\ containers[id].kind = "task"

\* C1: when run_scanner or run_api_server has returned or raised, the task
\* container it launched is neither running nor present in the engine, whether
\* the task exited 0 or non-zero, log streaming failed or the user interrupted
\* (the engine refusing the removal itself is left aside)
C1_NoTaskContainerLeft ==
    (pc = "done" /\ Dispatched /\ ~Has("task", "remove", "error")) => ~TaskLeft

\* C2: if container.wait raises on the task container, the dispatch call still
\* returns a defined integer exit code (nothing is raised) and its last engine
\* operation is the removal attempt on that container
C2_WaitFailureReturnsCodeAndRemoves ==
    (pc = "done" /\ Has("task", "wait", "error")) =>
        /\ outcome.kind = "return"
        /\ outcome.code \in Nat
        /\ LastEv.who = "task" /\ LastEv.op = "remove"

C2_Witness ==
    /\ pc = "done" /\ args.op = "api"
    /\ Has("task", "wait", "error")
    /\ Has("task", "remove", "ok")

\* C3 as claimed: when the wait on the task container cannot be completed, the
\* exit code the dispatcher returns is a failure code, never 0
C3_WaitFailureReturnsFailureCode ==
    (pc = "done" /\ Has("task", "wait", "error") /\ outcome.kind = "return") =>
        outcome.code # 0

\* C3 as amended: when container.wait raises on the task container, the
\* dispatcher returns exit code 0
C3_WaitFailureReturnsZero ==
    (pc = "done" /\ Has("task", "wait", "error")) => outcome = ReturnCode(0)

C3_Witness ==
    /\ pc = "done" /\ args.op = "scan"
    /\ Has("task", "wait", "error")
    /\ outcome.kind = "return" /\ outcome.code = 0

\* C4: an interrupt that arrives while the task container's logs are streamed
\* is followed at once, before the call returns or raises, by a stop request
\* with the bounded timeout on that container
C4_InterruptWhileStreamingStops ==
    \A i \in 1..Len(trace) :
        (trace[i].who = "task" /\ trace[i].op = "logs" /\ trace[i].res = "interrupt") =>
            /\ i < Len(trace)
            /\ trace[i + 1].who = "task" /\ trace[i + 1].op = "stop"
            /\ trace[i + 1].arg = StopTimeout

C4_Witness ==
    /\ pc = "done" /\ Dispatched
    /\ Has("task", "logs", "interrupt")
    /\ Has("task", "stop", "ok")

\* C5: an error raised by container.stop or container.remove never propagates
\* out of prepare_cached_image, run_scanner or run_api_server
C5_CleanupErrorsNeverPropagate ==
    (pc = "done" /\ trace # <<>> /\ LastEv.op \in {"stop", "remove"} /\ LastEv.res = "error")
        => outcome.exc # "APIError"

\* C6: run_scanner(use_cache=True, rebuild_cache=False) that finds the image of
\* the current key in the store never enters prepare_cached_image, builds no
\* root bootstrap command, and launches exactly one container: the task on the
\* cached image
C6_WarmCacheSkipsProvisioning ==
    (args.op = "scan" /\ args.use_cache /\ ~args.rebuild_cache /\ Has("store", "get", "hit")) =>
        /\ prepares = 0
        /\ \A i \in 1..Len(launches) :
              /\ launches[i].kind = "task"
              /\ ~launches[i].command.bootstrap
              /\ launches[i].user # RootUser
              /\ launches[i].image = _cached_image_ref(fs)
        /\ Len(launches) <= 1
        /\ (pc \in {"stream", "wait", "remove"} \/ (pc = "done" /\ outcome # Raised("OSError"))
              => Len(launches) = 1)
        /\ (pc = "done" /\ outcome.kind = "return" => Cardinality(mine) = 1)

C6_Witness ==
    /\ pc = "done" /\ args.op = "scan" /\ args.use_cache /\ ~args.rebuild_cache
    /\ Has("store", "get", "hit")
    /\ outcome = ReturnCode(0)

\* C7: run_scanner(use_cache=False) launches the task from the base image as
\* root with the inline bootstrap+install command, whatever the store holds
\* and whatever rebuild_cache is; it never queries, builds or runs a cached image
C7_UncachedRunsBaseAsRoot ==
    (args.op = "scan" /\ ~args.use_cache) =>
        /\ prepares = 0
        /\ \A i \in 1..Len(trace) : trace[i].who # "prov" /\ trace[i].op # "get"
        /\ \A i \in 1..Len(launches) :
              /\ launches[i].kind = "task"
              /\ launches[i].image = DEFAULT_BASE_IMAGE
              /\ launches[i].user = RootUser
              /\ launches[i].command.bootstrap
              /\ launches[i].command.module = "scanner.main"
        /\ (pc \in {"stream", "wait", "remove"} \/ (pc = "done" /\ outcome.kind = "return")
              => Len(launches) = 1)

C7_Witness ==
    /\ pc = "done" /\ args.op = "scan" /\ ~args.use_cache /\ args.rebuild_cache
    /\ _cached_image_ref(fs) \in DOMAIN images
    /\ outcome.kind = "return"
    /\ Len(launches) = 1

\* the reference of the cached image of a hashed byte stream
RefOfStream(stream) == [repo |-> CACHED_REPO_NAME, tag |-> SubSeq(Hexdigest(stream), 1, TagLen)]

\* C8: when prepare_cached_image has returned, the reference it returned is
\* a11y-scanner-cache:<first 12 hex digits of the current key> and is in the
\* store; a cached_image_exists() call that follows with the tracked bytes
\* unchanged returns true
C8_PrepareLeavesImageForCurrentKey ==
    /\ (pc = "done" /\ args.op = "prepare" /\ outcome.kind = "return") =>
          /\ outcome.ref = [repo |-> "a11y-scanner-cache",
                            tag |-> SubSeq(_compute_cache_key(fs), 1, 12)]
          /\ Len(outcome.ref.tag) = 12
          /\ outcome.ref \in DOMAIN images
    /\ (pc = "done" /\ args.op = "exists" /\ outcome.kind = "return" /\ fresh) => outcome.flag

C8_Witness ==
    /\ pc = "done" /\ args.op = "exists" /\ fresh
    /\ outcome = ReturnBool(TRUE)

C11_ExistsLeavesStoreAlone ==
    /\ [][args.op = "exists" => UNCHANGED <<images, containers>>]_vars
    /\ [](args.op = "exists" =>
            /\ launches = <<>> /\ mine = {} /\ prepares = 0
            /\ \A i \in 1..Len(trace) : trace[i].who = "store" /\ trace[i].op = "get")

C11_Witness ==
    /\ pc = "done" /\ args.op = "exists" /\ calls = 0
    /\ Cardinality(DOMAIN images) = 2
    /\ outcome = ReturnBool(FALSE)
    /\ trace = <<Ev("store", "get", "miss")>>

\* the a11y-scanner-cache:<tag> entries of an image store
CacheEntries(store) ==
    [r \in {x \in DOMAIN store : x.repo = CACHED_REPO_NAME} |-> store[r]]

\* C12: a step changes the a11y-scanner-cache entries of the image store only
\* when it is the commit of prepare_cached_image; ensure_base_image,
\* cached_image_exists, the task-run steps and the uncached dispatch leave them
C12_OnlyPrepareChangesCacheEntries ==
    [][CacheEntries(images') # CacheEntries(images) =>
          (pc = "prep_commit" /\ prepares >= 1 /\ args.op \in {"prepare", "scan", "api"}
           /\ (args.op # "prepare" => args.use_cache))]_vars

C12_Witness ==
    /\ pc = "done" /\ args.op = "api" /\ ~args.use_cache
    /\ outcome.kind = "return"
    /\ Has("task", "remove", "ok")
    /\ DOMAIN CacheEntries(images) = {_cached_image_ref(OtherTree)}

\* the provisioning container's wait returned a non-zero status
ProvExitedNonZero ==
    /\ Has("prov", "wait", "ok")
    /\ code # 0
    /\ \A i \in 1..Len(trace) : ~(trace[i].who = "task" /\ trace[i].op = "wait")

ProvLeft == \E id \in mine : id \in DOMAIN containers /\ containers[id].kind = "prov"

\* C14: when a call that ran prepare_cached_image has returned or raised, the
\* provisioning container is no longer in the engine, whether the build was
\* committed, exited non-zero, was interrupted while its logs were streamed, or
\* log streaming, wait or commit raised (the engine refusing the removal
\* itself is left aside)
C14_NoProvisioningContainerLeft ==
    (pc = "done" /\ Has("prov", "run", "ok") /\ ~Has("prov", "remove", "error")) => ~ProvLeft

\* after the launch of the task container no engine call failed and no
\* interrupt arrived
RunUndisturbed ==
    \A i \in 1..Len(trace) :
        trace[i].who = "task" => (trace[i].op = "run" \/ trace[i].res = "ok")

C16_SentinelInEveryTaskContainer ==
    /\ \A i \in 1..Len(launches) :
          launches[i].kind = "task" =>
              /\ "A11Y_SCANNER_IN_CONTAINER" \in DOMAIN launches[i].env
              /\ launches[i].env["A11Y_SCANNER_IN_CONTAINER"] = "1"
              /\ \A k \in DOMAIN EnvOrEmpty(config.env) \ {"A11Y_SCANNER_IN_CONTAINER"} :
                    k \in DOMAIN launches[i].env /\ launches[i].env[k] = config.env.map[k]
    /\ \A id \in DOMAIN containers :
          containers[id].kind = "task" =>
              /\ "A11Y_SCANNER_IN_CONTAINER" \in DOMAIN containers[id].env
              /\ containers[id].env["A11Y_SCANNER_IN_CONTAINER"] = "1"

C16_Witness ==
    /\ pc = "done" /\ args.op = "api" /\ args.use_cache
    /\ ~config.env.none /\ IN_CONTAINER_ENV \in DOMAIN config.env.map
    /\ config.env.map[IN_CONTAINER_ENV] = "0"
    /\ Has("task", "run", "ok")
    /\ outcome.kind = "return"

\* C17: a task process (scanner.main, scan_live_site, scanner.web.server) that
\* finds A11Y_SCANNER_IN_CONTAINER unset or different from "1" does nothing
\* but exit with status 2 after a diagnostic: once it has left its first
\* instruction it has exited, and no directory was made, nothing unzipped, no
\* HTTP server started, nothing scanned, no report written
C17_NoSentinelNoExecution ==
    (/\ proc.entry \in {"main", "live", "server"}
     /\ ~(proc.sentinel.set /\ proc.sentinel.val = "1")
     /\ proc.pc \notin {"guard", "import"}) =>
        /\ proc.pc = "exited"
        /\ proc.exit = 2
        /\ proc.diag
        /\ proc.steps = <<>>

\* the input the entry point requires is not there: the archive of the zip
\* scan (in data/unzip for scanner.main, --zip-path for cmd_scan), the base
\* URL of the live scan
InputMissing ==
    \/ proc.entry \in {"main", "cli"} /\ proc.zip = "missing"
    \/ proc.entry = "live" /\ Strip(proc.base_url) = ""

\* C18: a process that ends on a usage or precondition error, the sentinel
\* missing or the required input missing (the archive of the zip scan, the
\* base URL of the live scan), ends with exit code 2; exit code 1 is left to
\* unexpected failures
C18_PreconditionErrorsExitTwo ==
    (proc.pc = "exited" /\ proc.entry \in {"main", "live", "cli"}) =>
        LET guardFails == proc.entry \in {"main", "live"} /\ OutsideContainer(proc.sentinel)
        IN /\ (guardFails \/ InputMissing) => proc.exit = 2
           /\ (proc.exit = 1 => ~InputMissing)

\* the bytes of a file of a tree, none when the file is not there
BytesOf(tree, p) == IF p \in DOMAIN tree THEN tree[p] ELSE <<>>
\* the manifest and the files under src/ that are not compiled files
TrackedPaths == {p \in AllPaths : p = Manifest \/ Suffix(p) \notin {".pyc", ".pyo"}}

\* C19: any two _compute_cache_key calls on byte-identical trees return the
\* identical key, whatever the order in which the file system listed the
\* files of src/ at each call; the key is a full-length hex digest
C19_KeyDeterministic ==
    \A i, j \in 1..Len(keylog) :
        /\ Len(keylog[i].key) = 64
        /\ keylog[i].tree = keylog[j].tree => keylog[i].key = keylog[j].key

C19_Witness ==
    /\ Len(keylog) = 2
    /\ keylog[1].tree = keylog[2].tree
    /\ keylog[1].listing # keylog[2].listing
    /\ keylog[1].key = keylog[2].key
    /\ {"src/a.py", "src/b.py"} \subseteq DOMAIN keylog[1].tree
    /\ keylog[1].tree["src/a.py"] # keylog[1].tree["src/b.py"]

\* C20: any two _compute_cache_key calls on trees that differ in at least one
\* byte of at least one tracked file return different keys, also when bytes
\* have moved from a file to its neighbour in sort order
C20_KeyInjective ==
    \A i, j \in 1..Len(keylog) :
        (\E p \in TrackedPaths : BytesOf(keylog[i].tree, p) # BytesOf(keylog[j].tree, p))
            => keylog[i].key # keylog[j].key

\* C21: whenever the manager computes the cache key (cached_image_exists, the
\* existence check of a cached dispatch, prepare_cached_image, the resolution
\* of the reference to run) while a tracked file cannot be opened, the call
\* ends there with the OSError: no hit is reported, nothing is committed and
\* no container is launched
C21_UnreadableFilePropagates ==
    [][(/\ \E p \in DOMAIN fs \cap unreadable : p \in TrackedPaths
        /\ \/ pc \in {"exists", "prep_launch", "resolve"}
           \/ pc = "dispatch" /\ args.use_cache /\ ~args.rebuild_cache
        /\ pc' # pc)
       => /\ pc' = "done"
          /\ outcome' = Raised("OSError")
          /\ UNCHANGED <<images, containers, launches, built, trace>>]_vars

C21_Witness ==
    /\ pc = "done"
    /\ args.op = "scan"
    /\ outcome = Raised("OSError")
    /\ "src/a.py" \in unreadable
    /\ prepares = 1
    /\ launches = <<>>

\* the launch arguments of every container the call launched, and of every
\* container in the engine
Launched == {launches[i] : i \in 1..Len(launches)} \cup {containers[id] : id \in DOMAIN containers}

\* C22: every container the manager launches (provisioning, scan task, API
\* task) is given exactly two bind mounts, the project root read-only at the
\* container workdir and the host data directory read-write at workdir/data;
\* both modes end in ",Z" when the engine is Podman and are plain ro / rw
\* otherwise
C22_TwoBindMounts ==
    \A c \in Launched :
        /\ Cardinality(DOMAIN c.volumes) = 2
        /\ DOMAIN c.volumes = {<<"project_root">>, <<"project_root", "data">>}
        /\ c.volumes[<<"project_root">>] =
              [bind |-> <<"/worksrc">>, mode |-> IF _is_podman THEN "ro,Z" ELSE "ro"]
        /\ c.volumes[<<"project_root", "data">>] =
              [bind |-> <<"/worksrc", "data">>, mode |-> IF _is_podman THEN "rw,Z" ELSE "rw"]
        /\ c.working_dir = "/worksrc"

C22_Witness ==
    /\ _is_podman
    /\ args.op = "api"
    /\ Len(launches) = 2
    /\ launches[1].kind = "prov" /\ launches[2].kind = "task"
    /\ launches[2].volumes[<<"project_root", "data">>].mode = "rw,Z"

\* the task containers the call launched on the cached path
CachedTasks == {c \in Launched : c.kind = "task" /\ c.image.repo = CACHED_REPO_NAME}

\* C23 as claimed: every task container launched on the cached path runs as the
\* invoking host user's uid:gid and never as root; provisioning containers
\* run as root
C23_CachedTaskAsHostUserNeverRoot ==
    /\ \A c \in CachedTasks :
          /\ c.user.kind = "ids"
          /\ c.user.uid = host.uid /\ c.user.gid = host.gid
          /\ c.user.uid # 0
    /\ \A c \in Launched : c.kind = "prov" => c.user = RootUser

\* C23 amended: on a host with a uid and gid, every task container launched on
\* the cached path is given that uid:gid as its user, which is root exactly
\* when the invoking user is root; on Windows it is given no user and the
\* image's default applies; provisioning containers run as root
C23_CachedTaskAsHostUserWhereKnown ==
    /\ \A c \in CachedTasks :
          /\ host.system # "Windows" =>
                c.user = [kind |-> "ids", uid |-> host.uid, gid |-> host.gid]
          /\ host.system = "Windows" => c.user.kind = "none"
    /\ \A c \in Launched : c.kind = "prov" => c.user = RootUser

C23_Witness ==
    /\ host = LinuxHost
    /\ args.op = "api" /\ args.use_cache
    /\ Len(launches) = 2
    /\ launches[1].kind = "prov" /\ launches[1].user = RootUser
    /\ launches[2] \in CachedTasks
    /\ launches[2].user = [kind |-> "ids", uid |-> 1000, gid |-> 1000]

\* a reported component name that starts with "podman", in either case
NamesPodman(c) ==
    /\ "Name" \in DOMAIN c
    /\ Len(c.Name) >= 6
    /\ c.Name[1] \in {"p", "P"} /\ c.Name[2] \in {"o", "O"} /\ c.Name[3] \in {"d", "D"}
    /\ c.Name[4] \in {"m", "M"} /\ c.Name[5] \in {"a", "A"} /\ c.Name[6] \in {"n", "N"}

\* C24: constructing the manager never raises on account of the version query;
\* when the query fails the flag is false; the flag is true exactly when a
\* reported component name starts with "podman"; with the flag true no launch
\* carries a shared-memory size, with the flag false every launch has plain
\* ro / rw modes and carries the configured shared-memory size (when the
\* configuration has one)
C24_EngineDetection ==
    /\ (pc = "idle" /\ calls = MaxCalls) => outcome = NoOutcome
    /\ pc # "new" =>
          /\ version.error => ~_is_podman
          /\ _is_podman <=> (~version.error /\ \E i \in 1..Len(version.components) :
                                                   NamesPodman(version.components[i]))
          /\ \A c \in Launched :
                /\ _is_podman => c.shm_size = {}
                /\ ~_is_podman =>
                      /\ c.shm_size = {config.shm_size} \ {""}
                      /\ \A h \in DOMAIN c.volumes : c.volumes[h].mode \in {"ro", "rw"}

C24_Witness ==
    /\ pc = "done"
    /\ version.error
    /\ ~_is_podman
    /\ Len(launches) = 2
    /\ \A i \in 1..2 : launches[i].shm_size = {"2g"}
    /\ launches[2].volumes[<<"project_root">>].mode = "ro"

\* C25: ensure_base_image pulls only when the store does not have the base
\* image: run with the image present (as after a successful earlier call) it
\* requests no pull and leaves the image store as it is; run with the image
\* absent it requests one pull, after which the store has the base image and
\* nothing else has changed, or the call ends with the engine's error
C25_EnsureBaseImageIdempotent ==
    [][(pc \in {"ensure_base", "prep_base"} /\ pc' # pc) =>
         LET new == SubSeq(trace', Len(trace) + 1, Len(trace'))
             pulls == {i \in 1..Len(new) : new[i].op = "pull"}
         IN IF DEFAULT_BASE_IMAGE \in DOMAIN images
            THEN images' = images /\ pulls = {}
            ELSE \/ /\ Cardinality(pulls) = 1
                    /\ images' = Put(images, DEFAULT_BASE_IMAGE, BaseImage)
                    /\ pc' # "done"
                 \/ /\ Cardinality(pulls) <= 1
                    /\ images' = images
                    /\ pc' = "done" /\ outcome'.kind = "raise"]_vars

\* the second uncached run of a manager that started with an empty store
C25_Witness ==
    /\ calls = MaxCacheCalls - 2
    /\ args.op = "scan" /\ ~args.use_cache
    /\ pc = "launch"
    /\ trace = <<Ev("store", "get_base", "hit")>>
    /\ DOMAIN images = {DEFAULT_BASE_IMAGE}

\* C26: in a dispatch (run_scanner, run_api_server), a failed base image pull,
\* a store query that fails with an error other than not-found, or a launch
\* that raises ends the call with that exception after the one attempt, and
\* the call leaves no container behind
C26_EnvironmentErrorsFatalNothingLeft ==
    \A i \in 1..Len(trace) :
        (/\ args.op \in {"scan", "api"}
         /\ trace[i].res = "error"
         /\ trace[i].op \in {"pull", "get", "get_base", "run"})
        => /\ i = Len(trace)
           /\ pc = "done" /\ outcome.kind = "raise"
           /\ \A j \in 1..Len(trace) :
                 (trace[j].op = trace[i].op /\ trace[j].who = trace[i].who) => j = i
           /\ mine \cap DOMAIN containers = {}

\* the same without the last conjunct: the exception leaves the call after one attempt
C26_EnvironmentErrorsFatal ==
    \A i \in 1..Len(trace) :
        (/\ args.op \in {"scan", "api"}
         /\ trace[i].res = "error"
         /\ trace[i].op \in {"pull", "get", "get_base", "run"})
        => /\ i = Len(trace)
           /\ pc = "done" /\ outcome.kind = "raise"
           /\ \A j \in 1..Len(trace) :
                 (trace[j].op = trace[i].op /\ trace[j].who = trace[i].who) => j = i

\* C27: a run_scanner / run_api_server call in which an interrupt made the
\* manager issue a stop request never reports success: it ends by raising, or
\* returns an exit code other than 0
C27_InterruptedNeverReportsSuccess ==
    (/\ args.op \in {"scan", "api"}
     /\ pc = "done"
     /\ \E i \in 1..Len(trace) : trace[i].op = "stop" /\ trace[i].who = "task")
    => \/ outcome.kind = "raise"
       \/ outcome.kind = "return" /\ outcome.code # 0

\* C28: two provisioning builds that run concurrently over distinct source
\* contents commit under distinct tags and do not collide: once both have
\* finished, each build's tag is in the store and names the image built from
\* that build's own content, in every interleaving
C28_ConcurrentBuildsDoNotCollide ==
    (/\ args.op = "prepare" /\ pc = "done" /\ outcome.kind = "return"
     /\ peer.pc = "done"
     /\ peer.tree # fs)
    => /\ outcome.ref # peer.build
       /\ {outcome.ref, peer.build} \subseteq DOMAIN images
       /\ images[outcome.ref].installed = fs
       /\ images[peer.build].installed = peer.tree

\* the same for builds whose hashed byte streams differ
C28_DistinctStreamsDoNotCollide ==
    (/\ args.op = "prepare" /\ pc = "done" /\ outcome.kind = "return"
     /\ peer.pc = "done"
     /\ HashedStream(peer.tree) # HashedStream(fs))
    => /\ outcome.ref # peer.build
       /\ {outcome.ref, peer.build} \subseteq DOMAIN images
       /\ images[outcome.ref].installed = fs
       /\ images[peer.build].installed = peer.tree

\* the two recorded calls, once both have returned, started from the same
\* image store with the same use_cache, rebuild_cache and stream_logs
PairRecorded ==
    /\ Len(history.runs) = 2
    /\ pc = "idle"
    /\ history.runs[1].args.op = "scan"
    /\ history.runs[2].args.op = "api"
    /\ history.runs[1].args.use_cache = history.runs[2].args.use_cache
    /\ history.runs[1].args.rebuild_cache = history.runs[2].args.rebuild_cache
    /\ history.runs[1].args.stream_logs = history.runs[2].args.stream_logs
    /\ history.runs[1].images = history.runs[2].images

\* one sequence of engine operations continues the other
Continues(s, t) == Len(s) <= Len(t) /\ SubSeq(t, 1, Len(s)) = s

\* what a launch has apart from the task command and the published ports
LaunchShape(c) == [c EXCEPT !.command = <<>>, !.ports = {}]

\* C29: for the same use_cache, rebuild_cache, image store, source tree and
\* results of the engine, run_api_server performs the same sequence of engine
\* operations as run_scanner, launches with the same image, user, environment
\* and mounts, and ends the same way (returns, or raises the same error); the
\* two differ only in the task command and the published port
C29_ApiServerSameDispatchAsScanner ==
    PairRecorded =>
        LET s == history.runs[1]
            a == history.runs[2]
        IN (Continues(s.trace, a.trace) \/ Continues(a.trace, s.trace)) =>
              /\ s.trace = a.trace
              /\ s.outcome.kind = a.outcome.kind
              /\ s.outcome.exc = a.outcome.exc
              /\ Len(s.launches) = Len(a.launches)
              /\ \A i \in 1..Len(s.launches) :
                    LaunchShape(s.launches[i]) = LaunchShape(a.launches[i])

\* the same, for pairs of calls in which no stop request failed
C29_SameDispatchUnlessStopFails ==
    PairRecorded =>
        LET s == history.runs[1]
            a == history.runs[2]
            stopFailed(t) == \E i \in 1..Len(t) : t[i] = StopEv("task", "error")
        IN ((Continues(s.trace, a.trace) \/ Continues(a.trace, s.trace))
              /\ ~stopFailed(s.trace) /\ ~stopFailed(a.trace)) =>
              /\ s.trace = a.trace
              /\ s.outcome.kind = a.outcome.kind
              /\ s.outcome.exc = a.outcome.exc
              /\ Len(s.launches) = Len(a.launches)
              /\ \A i \in 1..Len(s.launches) :
                    LaunchShape(s.launches[i]) = LaunchShape(a.launches[i])

\* a pair of calls that agree on every engine operation, both with a task launched
C29_PairAgrees ==
    /\ PairRecorded
    /\ history.runs[1].trace = history.runs[2].trace
    /\ Len(history.runs[1].launches) > 0
    /\ history.runs[1].outcome.kind = "return"

\* the positions in the calls of a pipeline at which a service method was called
CallsOf(step) == {i \in 1..Len(proc.steps) : proc.steps[i] = step}

\* C30: Pipeline.run calls http_service.stop exactly once on every exit path
\* (normal completion, the early return when no HTML file is discovered, an
\* exception of any step) and never more than once before; when no HTML file
\* is discovered the server is never started and scan_url is never called;
\* every scan_url call comes after start and before stop
C30_PipelineStopsServerExactlyOnce ==
    proc.entry = "pipeline" =>
        /\ Cardinality(CallsOf("stop")) <= 1
        /\ proc.pc = "exited" => Cardinality(CallsOf("stop")) = 1
        /\ (proc.html = 0 /\ CallsOf("discover_html_files") # {}) =>
              CallsOf("start") = {} /\ CallsOf("scan_url") = {}
        /\ \A i \in CallsOf("scan_url") :
              /\ \E j \in CallsOf("start") : j < i
              /\ \A k \in CallsOf("stop") : i < k

\* a run that scanned a page, met an exception at the next, stopped the server and left
C30_Witness ==
    /\ proc.entry = "pipeline"
    /\ proc.pc = "exited"
    /\ proc.exit = 1
    /\ Cardinality(CallsOf("scan_url")) = 2
    /\ proc.steps[Len(proc.steps)] = "stop"

\* a run that found no HTML file and returned the empty result
C30_EarlyReturn ==
    /\ proc.entry = "pipeline"
    /\ proc.pc = "exited"
    /\ proc.html = 0
    /\ proc.exit = 0
    /\ proc.steps = <<"zip_run", "discover_html_files", "stop">>

\* C33: with use_cache and rebuild_cache, run_scanner and run_api_server enter
\* prepare_cached_image exactly once before the task container is launched,
\* also when an image for the current key is already in the store, and the
\* task is launched on the image that this rebuild committed
C33_RebuildPreparesOnceBeforeTask ==
    (Dispatched /\ args.use_cache /\ args.rebuild_cache) =>
        /\ prepares <= 1
        /\ \A i \in 1..Len(launches) :
              launches[i].kind = "task" =>
                 /\ prepares = 1
                 /\ Has("prov", "commit", "ok")
                 /\ ~Has("store", "get", "hit") /\ ~Has("store", "get", "miss")
                 /\ launches[i].image = build
                 /\ build \in DOMAIN images
                 /\ images[build] = CachedImage(fs)

\* a rebuild asked of run_api_server while the image for the current key was
\* in the store at the call, and the task launched after it
C33_Witness ==
    /\ args.op = "api" /\ args.use_cache /\ args.rebuild_cache
    /\ history.on
    /\ _cached_image_ref(fs) \in DOMAIN history.runs[Len(history.runs)].images
    /\ prepares = 1
    /\ \E i \in 1..Len(launches) : launches[i].kind = "task"

\* C34: in a cached dispatch the reference the task container is launched on
\* is the one this dispatch committed in prepare_cached_image or, when it did
\* not build, one it found present in the store (and which is therefore still
\* there), also when a source file changes during the dispatch
C34_TaskLaunchedOnCheckedOrBuiltRef ==
    (Dispatched /\ args.use_cache) =>
        \A i \in 1..Len(launches) :
            launches[i].kind = "task" =>
                IF prepares > 0 THEN launches[i].image = build
                ELSE launches[i].image \in DOMAIN images

\* the same, for dispatches during which no tracked byte changed
C34_UneditedLaunchOnCheckedOrBuiltRef ==
    (Dispatched /\ args.use_cache /\ edits = MaxRaceEdits) =>
        \A i \in 1..Len(launches) :
            launches[i].kind = "task" =>
                IF prepares > 0 THEN launches[i].image = build
                ELSE launches[i].image \in DOMAIN images

\* C35: when the user interrupts prepare_cached_image while the provisioning
\* container's logs are streamed, this call commits no image under the cache tag
C35_InterruptedPrepareCommitsNothing ==
    Has("prov", "logs", "interrupt") => ~Has("prov", "commit", "ok")

\* C36: after an interrupt during log streaming, the run_scanner or
\* run_api_server call eventually returns or raises, also when the stop
\* request failed
C36_InterruptedDispatchReturns ==
    (Dispatched /\ Has("task", "logs", "interrupt")) ~> (pc = "done")

\* the same for run_scanner alone, whose failed stop request leaves the call
C36_InterruptedScannerReturns ==
    (args.op = "scan" /\ Has("task", "logs", "interrupt")) ~> (pc = "done")

\* the same for the calls whose stop request succeeded
C36_StoppedDispatchReturns ==
    (Dispatched /\ Has("task", "stop", "ok")) ~> (pc = "done")

\* every provisioning container launched by the calls recorded so far and by
\* the call in progress
ProvLaunches ==
    LET all == [i \in 1..Len(history.runs) |-> history.runs[i].launches]
        of(ls) == {ls[j] : j \in {k \in 1..Len(ls) : ls[k].kind = "prov"}}
    IN of(launches) \cup UNION {of(all[i]) : i \in 1..Len(all)}

\* C37: launching a task container leaves the manager's configured
\* environment as it was: across run_scanner and run_api_server calls with
\* their provisioning builds, self.config keeps its initial contents and no
\* provisioning container is given the sentinel
C37_ConfigEnvNeverMutated ==
    /\ config = DefaultConfig
    /\ \A c \in ProvLaunches : c.env = ConfigEnv /\ IN_CONTAINER_ENV \notin DOMAIN c.env

\* a provisioning container launched by the second call, after the first call
\* had launched a task container with the sentinel
C37_Witness ==
    /\ Len(history.runs) = 2
    /\ \E i \in 1..Len(history.runs[1].launches) :
          /\ history.runs[1].launches[i].kind = "task"
          /\ IN_CONTAINER_ENV \in DOMAIN history.runs[1].launches[i].env
    /\ \E i \in 1..Len(launches) : launches[i].kind = "prov"

\* C31: with the sentinel not at its expected value, every POST to
\* /api/scan/zip and /api/scan/url is answered 400 'Must run inside
\* container', and no authentication check, upload check, cleaning of
\* directories, file write or scan precedes the answer
C31_OutsideContainerRejectedFirst ==
    (request.pc # "none" /\ OutsideContainer(request.sentinel)) =>
        /\ \A i \in 1..Len(request.steps) : request.steps[i] = "validate"
        /\ request.pc = "responded" =>
              request.status = 400 /\ request.detail = "Must run inside container"

\* C31 as the code has it: a request from which the handler's parameters can
\* be built is answered 400 'Must run inside container' before the
\* authentication check, the upload checks, the cleaning of directories, the
\* write of the archive and the scan; a request from which they cannot be
\* built is answered 422 by the framework and the handler is not entered
C31_OutsideContainerHandlerRejectsFirst ==
    (request.pc # "none" /\ OutsideContainer(request.sentinel)) =>
        /\ \A i \in 1..Len(request.steps) : request.steps[i] = "validate"
        /\ request.pc \in {"validate", "_require_container", "responded"}
        /\ request.pc = "responded" =>
              IF request.valid
              THEN request.status = 400 /\ request.detail = "Must run inside container"
              ELSE request.status = 422

\* a well-formed upload with wrong credentials, outside a container, answered 400
C31_Witness ==
    /\ request.pc = "responded"
    /\ request.endpoint = "/api/scan/zip"
    /\ OutsideContainer(request.sentinel)
    /\ request.valid
    /\ request.auth = "mismatch"
    /\ request.status = 400

\* the members of the archive whose names are relative, without "..", and
\* whose targets stay in the destination
SafeMembers ==
    {k \in 1..Len(zip_service.archive) :
        LET n == zip_service.archive[k].filename
        IN ~n.abs /\ (\A j \in 1..Len(n.parts) : n.parts[j] # "..")
           /\ ~resolve(n, zip_service.links).outside}

C39_ZipBombAborted ==
    (zip_service.pc # "none"
       /\ total_uncompressed(zip_service.archive) > MAX_UNCOMPRESSED) =>
        /\ zip_service.written = {}
        /\ zip_service.pc = "done" => zip_service.outcome = "RuntimeError"

\* the last call made on the service
LastHttpCall == http_service.log[Len(http_service.log)]

\* C38: in any sequence of start and stop calls at most one server socket is
\* open and one server thread runs; a start on a running service changes
\* nothing; after a stop there is no server, no thread, an empty base_url and
\* no open socket at the old address; and a start on a stopped service whose
\* bind succeeds gives a running server at the new base_url
C38_AtMostOneServerAndStopResets ==
    http_service.pc = "idle" =>
        /\ Cardinality(http_service.listening) <= 1
        /\ Cardinality(http_service.alive) <= 1
        /\ http_service._server = 0 => http_service.listening = {} /\ http_service.alive = {}
        /\ http_service.log # <<>> =>
              /\ (LastHttpCall.op = "start" /\ LastHttpCall.before._server # 0) =>
                    HttpFields(http_service) = LastHttpCall.before
              /\ LastHttpCall.op = "stop" =>
                    /\ http_service._server = 0
                    /\ http_service._thread = 0
                    /\ http_service.base_url = <<>>
                    /\ \A l \in LastHttpCall.before.listening : l \notin http_service.listening
              /\ (LastHttpCall.op = "start" /\ LastHttpCall.bind = "ok") =>
                    /\ http_service._server # 0
                    /\ http_service._server \notin {l.server : l \in LastHttpCall.before.listening}
                    /\ http_service.listening =
                          {[server |-> http_service._server, port |-> http_service.port]}
                    /\ http_service.alive = {http_service._thread}
                    /\ http_service.base_url = <<"http://", "localhost", ":", http_service.port>>

\* start, start again on the running service, stop, and a start that works again
C38_Witness ==
    /\ Len(http_service.log) = 4
    /\ http_service.log[1].op = "start" /\ http_service.log[1].bind = "ok"
    /\ http_service.log[2].op = "start" /\ http_service.log[2].bind = "running"
    /\ http_service.log[3].op = "stop"
    /\ http_service.log[4].op = "start" /\ http_service.log[4].bind = "ok"
    /\ http_service._server = 2
    /\ http_service.listening = {[server |-> 2, port |-> http_service.port]}

TypeOK ==
    /\ pc \in {"new", "idle", "done", "exists", "dispatch", "ensure_base", "resolve", "launch", "stream",
               "wait", "remove", "prep_base", "prep_launch", "prep_stream", "prep_wait",
               "prep_fail", "prep_commit"}
    /\ DOMAIN fs \subseteq AllPaths
    /\ calls >= 0 /\ faults >= 0 /\ interrupts >= 0 /\ edits >= 0

====
